---- MODULE Spec2Model ----
(***************************************************************************)
(* A model of the extraction-to-opportunity pipeline of                    *)
(* src/src/ai_analyzer.py: AIAnalyzer.analyze_content_items with its batch *)
(* loop, the per-item analysis path and the opportunity factory, and       *)
(* OpportunityDeduplicator with its greedy grouping and its merge.         *)
(*                                                                         *)
(* Python values are modelled as follows.  A list is a sequence, a dict is *)
(* a function whose domain is the set of keys present, a dataclass is a    *)
(* record.  datetime.now() reads the variable now.  An identifier string   *)
(* f"opp_{item}_{h}" is the tuple <<"opp", item, h>>.  A similarity is an  *)
(* integer number of hundredths (0.8 is 80).  A call that may raise        *)
(* returns [raised |-> BOOLEAN, value |-> ...].                            *)
(***************************************************************************)
EXTENDS Integers, Sequences, FiniteSets, TLC

\* The longest list of content items handed to analyze_content_items.
MaxItems == 3

\* The longest list of opportunities handed to deduplicate_opportunities.
MaxOpps == 3

\* The longest list handed to _merge_opportunity_group on its own.
MaxCluster == 3

VARIABLES
    input,                \* the caller's list of content items (never changed)
    batch_size,           \* self.batch_size
    max_items_per_file,   \* self.max_items_per_file
    progress_callback,    \* "none" (no callback), "reports" or "fails"
    hashseed,             \* the process's string-hash seed
    now,                  \* the wall clock read by datetime.now()
    pc,                   \* position inside analyze_content_items
    content_items,        \* the local list, truncated to the cap
    truncation_reported,  \* the warning of line 76 was printed
    total_batches,        \* line 80
    i,                    \* the loop offset of line 85 (0-based)
    batch,                \* line 87
    batches,              \* the batches taken at line 87 so far, in order
    k,                    \* position inside the fallback loop of line 118
    opportunities,        \* the fallback accumulator of line 117
    all_opportunities,    \* line 79; the returned list
    responses,            \* what each item's analysis met: id -> outcome, time
    calls,                \* the backend calls made, as the item ids sent
    progress,             \* the (batch_num, total_batches) pairs reported
    dedup_input,          \* the list handed to deduplicate_opportunities
    similarity_matrix,    \* line 309, in hundredths
    similarity_threshold, \* self.similarity_threshold, in hundredths
    arg_similarity_threshold, \* what OpportunityDeduplicator(...) was handed
    dpc,                  \* position inside deduplicate_opportunities
    visited,              \* line 325
    groups,               \* line 326; a group lists positions of dedup_input
    gi,                   \* the loop index of line 328 (1-based)
    mi,                   \* the loop position of line 316 (1-based)
    merged_opportunities, \* line 315; the returned list
    cluster,              \* the list handed to _merge_opportunity_group alone
    merged,               \* what that call returned
    mpc,                  \* "call" before that call, "merged" after it
    arg_opp_data,         \* the raw record handed to the factory alone
    arg_content_item,     \* the content item handed to it
    opportunity,          \* what that call returned
    before,               \* the call before it: its arguments and its return
    fpc,                  \* "call" before that call, "returned" or "raised" after
    arg_response_text,    \* the text handed to _parse_ai_response alone
    parsed,               \* what that call returned
    ppc,                  \* "call" before that call, "returned" or "raised" after
    arg_api_key,          \* the api_key handed to AIAnalyzer(...)
    environ,              \* os.environ: the variables set, as texts
    settings,             \* self.api_key and the three numbers of lines 54-56
    client,               \* self.client
    cpc,                  \* position inside __init__
    table,                \* the opportunities table: id -> row
    answer,               \* what the last call on the knowledge base returned
    last_update,          \* per id, the status and comments last set by update
    operations,           \* the calls made so far
    request,              \* the last call made, with its arguments
    memory,               \* the Opportunity objects the process holds
    arg_item,             \* the content item handed to _analyze_single_item alone
    met_outcome,          \* what the analysis of that item meets
    item_opportunities,   \* what that call returned
    ipc                   \* "call" before that call, "returned" or "raised" after

\* read by the analyzer and by the deduplicator
svars == <<hashseed, now>>

avars == <<input, batch_size, max_items_per_file, progress_callback, pc,
           content_items, truncation_reported, total_batches, i, batch,
           batches, k,
           opportunities, all_opportunities, responses, calls, progress>>

dvars == <<dedup_input, similarity_matrix, similarity_threshold,
           arg_similarity_threshold, dpc, visited, groups, gi, mi,
           merged_opportunities>>

mvars == <<cluster, merged, mpc>>

fvars == <<arg_opp_data, arg_content_item, opportunity, before, fpc>>

\* what is called on its own, beside the analyzer and the deduplicator
pvars == <<arg_response_text, parsed, ppc>>

cvars == <<arg_api_key, environ, settings, client, cpc>>

kvars == <<table, answer, last_update, operations, request>>

hvars == <<memory>>

ivars == <<arg_item, met_outcome, item_opportunities, ipc>>

xvars == <<fvars, pvars, cvars, kvars, hvars, ivars>>

vars == <<svars, avars, dvars, mvars, xvars>>

-----------------------------------------------------------------------------
(* Python helpers *)

\* dict.get(key, default)
Get(d, key, default) == IF key \in DOMAIN d THEN d[key] ELSE default

\* list[lo:hi] with 0-based lo and exclusive hi, clipped to the list
Slice(s, lo, hi) ==
    LET top == IF hi < Len(s) THEN hi ELSE Len(s)
    IN  IF lo >= top THEN <<>> ELSE SubSeq(s, lo + 1, top)

RECURSIVE Concat(_)
\* the concatenation of a sequence of sequences
Concat(ss) == IF ss = <<>> THEN <<>> ELSE Head(ss) \o Concat(Tail(ss))

\* A Python value that is None, a str or a number; a text is a sequence of
\* characters, a number is held in hundredths.
None == [none |-> TRUE]

Str(text) == [str |-> text]

Num(hundredths) == [num |-> hundredths]

\* not value, for None, for a str and for a number
Falsy(value) == value = None \/ value = Str(<<>>) \/ value = Num(0)

\* x or y
Or(x, y) == IF Falsy(x) THEN y ELSE x

\* os.getenv(name, default)
Getenv(env, name, default) ==
    IF name \in DOMAIN env THEN Str(env[name]) ELSE default

-----------------------------------------------------------------------------
(* Content items and what the analysis of one item can meet *)

\* A ContentItem; only its identifier matters to the pipeline.
ContentItem(n) == [id |-> n]

Titles == {"Slow checkout", "Checkout is slow"}

\* hash(title) % 10000 under the process's hash seed: equal titles hash
\* equally, different titles may collide.
Hash(title, seed) ==
    IF seed = 0 THEN (IF title = "Slow checkout" THEN 4711 ELSE 1234)
    ELSE 4711

HashSeeds == {0, 1}

\* A description is a sequence of characters, so that strip() and lower()
\* act on it.  The placeholder of line 242 (written without its accent).
SinDescripcion ==
    <<"S", "i", "n", " ", "d", "e", "s", "c", "r", "i", "p", "c", "i", "o", "n">>

\* Raw records as the backend may give them: a full one, one holding only a
\* title, one without a title.
RawFull ==
    [title |-> "Slow checkout", description |-> <<"S", "l", "o", "w">>,
     category |-> "pain_point", severity |-> "high",
     keywords |-> <<"checkout", "slow">>]

RawTitleOnly == [title |-> "Checkout is slow"]

RawUntitled == [description |-> <<"N", "o", "n", "e">>, severity |-> "low"]

\* A response text is a sequence of pieces: a brace, a run of prose that
\* holds no brace and is no JSON, or the text of one member of a JSON object
\* ("key": value).  MemberText(obj) is the well-formed member text of the one
\* member of obj; it holds braces of its own when its value lists raw
\* records.  Two member texts decode no further than the decoder gets: one
\* whose value nests arrays deeper than the interpreter's recursion limit,
\* one whose value is an integer literal of more digits than int() converts.
NoObject == [other |-> <<>>]

Piece(kind) == [kind |-> kind, object |-> NoObject]

OpenBrace == Piece("{")

CloseBrace == Piece("}")

Prose == Piece("prose")

TooDeep == Piece("nested too deep")

TooManyDigits == Piece("too many digits")

MemberText(obj) == [kind |-> "member", object |-> obj]

\* The response texts of the analyzer: one without a brace, one whose braces
\* hold no JSON, and JSON objects amid prose.
TextNoJson == <<Prose>>

TextInvalidJson == <<Prose, OpenBrace, Prose, CloseBrace>>

TextObject(obj) == <<Prose, OpenBrace, MemberText(obj), CloseBrace, Prose>>

RecordLists ==
    { <<>>, <<RawFull>>, <<RawFull, RawTitleOnly>>, <<RawFull, RawUntitled>> }

ResponseTexts ==
    {TextNoJson, TextInvalidJson, TextObject(NoObject)}
        \cup {TextObject([opportunities |-> rl]) : rl \in RecordLists}

\* What one item's analysis meets: the prompt builder raises, the backend
\* call raises, or the backend returns a text.
Outcomes ==
    {[fails |-> "prompt", text |-> TextNoJson],
     [fails |-> "backend", text |-> TextNoJson]}
        \cup {[fails |-> "nothing", text |-> t] : t \in ResponseTexts}

NotAnalyzed == [fails |-> "not analyzed", text |-> TextNoJson]

-----------------------------------------------------------------------------
(* AIAnalyzer: the parser, the factory and the per-item path *)

\* the raw records whose objects a piece of text holds (an object of these
\* texts has one member)
InnerRecords(piece) ==
    IF piece.kind = "member"
    THEN piece.object[CHOOSE key \in DOMAIN piece.object : TRUE]
    ELSE <<>>

\* the pieces that hold a '{', and those that hold a '}'
Opens(text) ==
    {p \in 1..Len(text) : text[p] = OpenBrace \/ InnerRecords(text[p]) # <<>>}

Closes(text) ==
    {p \in 1..Len(text) : text[p] = CloseBrace \/ InnerRecords(text[p]) # <<>>}

\* re.search(r'\{.*\}', text, re.DOTALL): the region from the first '{' to
\* the last '}' of the text, when that '}' comes after that '{'.  from and to
\* are the pieces the two braces are in.
JsonMatch(text) ==
    IF Opens(text) = {} \/ Closes(text) = {}
    THEN [found |-> FALSE, from |-> 0, to |-> 0]
    ELSE LET first == CHOOSE p \in Opens(text) : \A q \in Opens(text) : p <= q
             last == CHOOSE p \in Closes(text) : \A q \in Closes(text) : q <= p
         IN  IF first < last \/ (first = last /\ text[first].kind = "member")
             THEN [found |-> TRUE, from |-> first, to |-> last]
             ELSE [found |-> FALSE, from |-> 0, to |-> 0]

\* what json.loads does with one region
Decoded(value) == [error |-> "none", value |-> value]

Undecodable(error) == [error |-> error, value |-> <<>>]

\* json.loads on the region of a match.  The decoder reads from the left and
\* fails at the first thing it cannot take: anything after a complete object
\* is extra data.
JsonLoads(text, match) ==
    LET a == match.from
        b == match.to
    IN  IF text[a].kind = "member"
        THEN \* the region begins with the object of the first raw record
             IF a = b /\ Len(InnerRecords(text[a])) = 1
             THEN Decoded(InnerRecords(text[a])[1])
             ELSE Undecodable("JSONDecodeError")
        ELSE CASE text[a + 1] = CloseBrace ->
                    IF a + 1 = b THEN Decoded(<<>>)
                    ELSE Undecodable("JSONDecodeError")
               [] text[a + 1] = TooDeep -> Undecodable("RecursionError")
               [] text[a + 1] = TooManyDigits -> Undecodable("ValueError")
               [] text[a + 1].kind = "member" ->
                    IF a + 2 = b /\ text[b] = CloseBrace
                    THEN Decoded(text[a + 1].object)
                    ELSE Undecodable("JSONDecodeError")
               [] OTHER -> Undecodable("JSONDecodeError")

\* _parse_ai_response: only json.JSONDecodeError is caught (line 220)
ParseAIResponse(response_text) ==
    LET json_match == JsonMatch(response_text)
    IN  IF ~json_match.found
        THEN [raised |-> FALSE, value |-> [opportunities |-> <<>>]]
        ELSE LET loaded == JsonLoads(response_text, json_match)
             IN  CASE loaded.error = "none" ->
                        [raised |-> FALSE, value |-> loaded.value]
                   [] loaded.error = "JSONDecodeError" ->
                        [raised |-> FALSE, value |-> [opportunities |-> <<>>]]
                   [] OTHER -> [raised |-> TRUE, value |-> <<>>]

\* a faulty variant of the factory: the record is made without its source
CreateOpportunityFromAnalysis_NoSource(opp_data, content_item, seed, clock) ==
    IF "title" \notin DOMAIN opp_data
    THEN [raised |-> TRUE, value |-> <<>>]
    ELSE [raised |-> FALSE,
          value |->
            <<[id |-> <<"opp", content_item.id, Hash(opp_data["title"], seed)>>,
               title |-> Get(opp_data, "title", "Oportunidad sin titulo"),
               description |-> Get(opp_data, "description", SinDescripcion),
               category |-> Get(opp_data, "category", "improvement_opportunity"),
               severity |-> Get(opp_data, "severity", "medium"),
               frequency |-> 1,
               sources |-> <<>>,
               keywords |-> Get(opp_data, "keywords", <<>>),
               created_at |-> clock,
               updated_at |-> clock,
               processing_date |-> clock,
               status |-> "nueva",
               comments |-> "",
               merged_from |-> <<>>]>>]

\* _create_opportunity_from_analysis; raises KeyError without a title
CreateOpportunityFromAnalysis(opp_data, content_item, seed, clock) ==
    IF "title" \notin DOMAIN opp_data
    THEN [raised |-> TRUE, value |-> <<>>]
    ELSE [raised |-> FALSE,
          value |->
            <<[id |-> <<"opp", content_item.id, Hash(opp_data["title"], seed)>>,
               title |-> Get(opp_data, "title", "Oportunidad sin titulo"),
               description |-> Get(opp_data, "description", SinDescripcion),
               category |-> Get(opp_data, "category", "improvement_opportunity"),
               severity |-> Get(opp_data, "severity", "medium"),
               frequency |-> 1,
               sources |-> <<content_item.id>>,
               keywords |-> Get(opp_data, "keywords", <<>>),
               created_at |-> clock,
               updated_at |-> clock,
               processing_date |-> clock,
               status |-> "nueva",
               comments |-> "",
               merged_from |-> <<>>]>>]

RECURSIVE MadeUntilFailure(_, _, _, _)
\* the opportunities of the raw records before the first that fails
MadeUntilFailure(records, content_item, seed, clock) ==
    IF records = <<>> THEN <<>>
    ELSE LET first == CreateOpportunityFromAnalysis(Head(records), content_item,
                                                    seed, clock)
         IN  IF first.raised THEN <<>>
             ELSE first.value \o MadeUntilFailure(Tail(records), content_item,
                                                  seed, clock)

\* a faulty variant: what was built before a raw record failed is returned
AnalyzeSingleItem_KeepsEarlier(content_item, outcome, seed, clock) ==
    IF outcome.fails = "prompt" THEN [raised |-> TRUE, value |-> <<>>]
    ELSE IF outcome.fails = "backend" THEN [raised |-> FALSE, value |-> <<>>]
    ELSE
      LET analysis_result == ParseAIResponse(outcome.text)
          records == Get(analysis_result.value, "opportunities", <<>>)
      IN  IF analysis_result.raised
          THEN [raised |-> FALSE, value |-> <<>>]
          ELSE [raised |-> FALSE,
                value |-> MadeUntilFailure(records, content_item, seed, clock)]

\* _analyze_single_item: the prompt is built outside the try block, all the
\* rest inside it
AnalyzeSingleItem(content_item, outcome, seed, clock) ==
    IF outcome.fails = "prompt" THEN [raised |-> TRUE, value |-> <<>>]
    ELSE IF outcome.fails = "backend" THEN [raised |-> FALSE, value |-> <<>>]
    ELSE
      LET analysis_result == ParseAIResponse(outcome.text)
          records == Get(analysis_result.value, "opportunities", <<>>)
          made == [r \in 1..Len(records) |->
                     CreateOpportunityFromAnalysis(records[r], content_item,
                                                   seed, clock)]
      IN  IF analysis_result.raised \/ \E r \in 1..Len(records) : made[r].raised
          THEN [raised |-> FALSE, value |-> <<>>]
          ELSE [raised |-> FALSE,
                value |-> Concat([r \in 1..Len(records) |-> made[r].value])]

\* a faulty variant: the try of lines 105-109 is missing
AnalyzeBatchOfOne_NoCatch(content_item, outcome, seed, clock) ==
    AnalyzeSingleItem(content_item, outcome, seed, clock)

\* _analyze_batch for one item (lines 103-109)
AnalyzeBatchOfOne(content_item, outcome, seed, clock) ==
    LET r == AnalyzeSingleItem(content_item, outcome, seed, clock)
    IN  IF r.raised THEN [raised |-> FALSE, value |-> <<>>] ELSE r

\* a faulty variant: the try of lines 119-124 is missing
FallbackStep_NoCatch(content_item, outcome, seed, clock) ==
    AnalyzeSingleItem(content_item, outcome, seed, clock)

\* one round of the fallback loop (lines 118-124)
FallbackStep(content_item, outcome, seed, clock) ==
    LET r == AnalyzeSingleItem(content_item, outcome, seed, clock)
    IN  IF r.raised THEN [raised |-> FALSE, value |-> <<>>] ELSE r

\* self._analyze_multiple_items is defined nowhere: the call of line 113
\* raises AttributeError before anything is sent.
AnalyzeMultipleItems(items) == [raised |-> TRUE, value |-> <<>>]

\* whether the analysis of an item reaches the backend
ReachesBackend(outcome) == outcome.fails # "prompt"

-----------------------------------------------------------------------------
(* analyze_content_items *)

\* the callers' callbacks: none, one that returns, one that raises
Callbacks == {"none", "reports", "fails"}

\* a // b for b other than 0: the floor of the quotient
FloorDiv(a, b) == IF b > 0 THEN a \div b ELSE (0 - a) \div (0 - b)

\* whether x is one of range(0, stop, step), given that the loop reached x
InRange(x, stop, step) == step > 0 /\ x < stop

\* the batch sizes int(os.getenv('AI_BATCH_SIZE', '10')) may give: any
\* integer, 0 and the negative ones included
BatchSizes == (0 - 1)..MaxItems

\* a run entered with one of the given callbacks and batch sizes
Enter(callbacks, batch_sizes) ==
    /\ \E n \in 0..MaxItems : input = [x \in 1..n |-> ContentItem(x)]
    /\ batch_size \in batch_sizes
    /\ max_items_per_file \in 1..MaxItems
    /\ progress_callback \in callbacks
    /\ hashseed \in HashSeeds
    /\ now = 1
    /\ pc = "start"
    /\ content_items = input
    /\ truncation_reported = FALSE
    /\ total_batches = 0
    /\ i = 0
    /\ batch = <<>>
    /\ batches = <<>>
    /\ k = 0
    /\ opportunities = <<>>
    /\ all_opportunities = <<>>
    /\ responses = [x \in 1..Len(input) |-> [outcome |-> NotAnalyzed, at |-> 0]]
    /\ calls = <<>>
    /\ progress = <<>>

\* a run entered with one of the given callbacks and a batch size of 1 or
\* more
EnterWith(callbacks) == Enter(callbacks, 1..MaxItems)

\* a run whose callback, if there is one, returns
InitAnalyzer == EnterWith({"none", "reports"})

\* a faulty variant: the cap of lines 75-77 is not applied
Truncate_NoCap ==
    /\ pc = "start"
    /\ truncation_reported' = (Len(content_items) > max_items_per_file)
    /\ total_batches' = (Len(content_items) + batch_size - 1) \div batch_size
    /\ i' = 0
    /\ all_opportunities' = <<>>
    /\ pc' = "loop"
    /\ UNCHANGED <<dvars, mvars, xvars, batches, input, batch_size, max_items_per_file, progress_callback,
                   hashseed, now, content_items, batch, k, opportunities,
                   responses, calls, progress>>

\* lines 74-82; with a batch size of 0 line 80 raises ZeroDivisionError
Truncate ==
    /\ pc = "start"
    /\ LET cut == IF Len(content_items) > max_items_per_file
                  THEN Slice(content_items, 0, max_items_per_file)
                  ELSE content_items
       IN  /\ content_items' = cut
           /\ truncation_reported' = (Len(content_items) > max_items_per_file)
           /\ IF batch_size = 0
              THEN /\ pc' = "raised"
                   /\ UNCHANGED total_batches
              ELSE /\ total_batches' = FloorDiv(Len(cut) + batch_size - 1, batch_size)
                   /\ pc' = "loop"
    /\ i' = 0
    /\ all_opportunities' = <<>>
    /\ UNCHANGED <<dvars, mvars, xvars, batches, input, batch_size, max_items_per_file, progress_callback,
                   hashseed, now, batch, k, opportunities, responses, calls,
                   progress>>

\* a faulty variant: a batch runs one item into the next
TakeBatch_Overlapping ==
    /\ pc = "loop"
    /\ InRange(i, Len(content_items), batch_size)
    /\ batch' = Slice(content_items, i, i + batch_size + 1)
    /\ batches' = Append(batches, batch')
    /\ pc' = "batch"
    /\ UNCHANGED <<dvars, mvars, xvars, input, batch_size, max_items_per_file, progress_callback,
                   hashseed, now, content_items, truncation_reported,
                   total_batches, i, k, opportunities, all_opportunities,
                   responses, calls, progress>>

\* lines 85-87: the next batch
TakeBatch ==
    /\ pc = "loop"
    /\ InRange(i, Len(content_items), batch_size)
    /\ batch' = Slice(content_items, i, i + batch_size)
    /\ batches' = Append(batches, batch')
    /\ pc' = "batch"
    /\ UNCHANGED <<dvars, mvars, xvars, input, batch_size, max_items_per_file, progress_callback,
                   hashseed, now, content_items, truncation_reported,
                   total_batches, i, k, opportunities, all_opportunities,
                   responses, calls, progress>>

\* line 99
Return ==
    /\ pc = "loop"
    /\ ~InRange(i, Len(content_items), batch_size)
    /\ pc' = "done"
    /\ UNCHANGED <<dvars, mvars, xvars, batches, input, batch_size, max_items_per_file, progress_callback,
                   hashseed, now, content_items, truncation_reported,
                   total_batches, i, batch, k, opportunities,
                   all_opportunities, responses, calls, progress>>

\* a faulty variant: the request to the backend is repeated once
Meet_Twice(item, outcome) ==
    /\ responses' = [responses EXCEPT ![item.id] =
                        [outcome |-> outcome, at |-> now]]
    /\ calls' = IF ReachesBackend(outcome)
                THEN Append(Append(calls, item.id), item.id) ELSE calls
    /\ now' = now + 1

\* the analysis of one item meets an outcome; time passes
Meet(item, outcome) ==
    /\ responses' = [responses EXCEPT ![item.id] =
                        [outcome |-> outcome, at |-> now]]
    /\ calls' = IF ReachesBackend(outcome) THEN Append(calls, item.id) ELSE calls
    /\ now' = now + 1

\* a faulty variant: the batch's results are put in front of the list
AnalyzeBatchSingle_InFront ==
    /\ pc = "batch"
    /\ Len(batch) = 1
    /\ \E outcome \in Outcomes :
         LET r == AnalyzeBatchOfOne(batch[1], outcome, hashseed, now)
         IN  /\ Meet(batch[1], outcome)
             /\ pc' = "callback"
             /\ all_opportunities' = r.value \o all_opportunities
    /\ UNCHANGED <<dvars, mvars, xvars, batches, input, batch_size, max_items_per_file, progress_callback,
                   hashseed, content_items, truncation_reported, total_batches,
                   i, batch, k, opportunities, progress>>

\* lines 91-92 with _analyze_batch on a batch of one item
AnalyzeBatchSingle ==
    /\ pc = "batch"
    /\ Len(batch) = 1
    /\ \E outcome \in Outcomes :
         LET r == AnalyzeBatchOfOne(batch[1], outcome, hashseed, now)
         IN  /\ Meet(batch[1], outcome)
             /\ IF r.raised
                THEN /\ pc' = "raised"
                     /\ UNCHANGED all_opportunities
                ELSE /\ pc' = "callback"
                     /\ all_opportunities' = all_opportunities \o r.value
    /\ UNCHANGED <<dvars, mvars, xvars, batches, input, batch_size, max_items_per_file, progress_callback,
                   hashseed, content_items, truncation_reported, total_batches,
                   i, batch, k, opportunities, progress>>

\* lines 110-117: the consolidated call fails and the fallback begins
AnalyzeBatchMultiple ==
    /\ pc = "batch"
    /\ Len(batch) # 1
    /\ LET r == AnalyzeMultipleItems(batch)
       IN  IF r.raised
           THEN /\ opportunities' = <<>>
                /\ k' = 1
                /\ pc' = "fallback"
                /\ UNCHANGED all_opportunities
           ELSE /\ all_opportunities' = all_opportunities \o r.value
                /\ pc' = "callback"
                /\ UNCHANGED <<opportunities, k>>
    /\ UNCHANGED <<dvars, mvars, xvars, batches, input, batch_size, max_items_per_file, progress_callback,
                   hashseed, now, content_items, truncation_reported,
                   total_batches, i, batch, responses, calls, progress>>

\* lines 118-124: one item of the fallback loop
FallbackItem ==
    /\ pc = "fallback"
    /\ k <= Len(batch)
    /\ \E outcome \in Outcomes :
         LET r == FallbackStep(batch[k], outcome, hashseed, now)
         IN  /\ Meet(batch[k], outcome)
             /\ IF r.raised
                THEN /\ pc' = "raised"
                     /\ UNCHANGED <<opportunities, k>>
                ELSE /\ opportunities' = opportunities \o r.value
                     /\ k' = k + 1
                     /\ UNCHANGED pc
    /\ UNCHANGED <<dvars, mvars, xvars, batches, input, batch_size, max_items_per_file, progress_callback,
                   hashseed, content_items, truncation_reported, total_batches,
                   i, batch, all_opportunities, progress>>

\* line 125, then line 92
FallbackReturn ==
    /\ pc = "fallback"
    /\ k > Len(batch)
    /\ all_opportunities' = all_opportunities \o opportunities
    /\ pc' = "callback"
    /\ UNCHANGED <<dvars, mvars, xvars, batches, input, batch_size, max_items_per_file, progress_callback,
                   hashseed, now, content_items, truncation_reported,
                   total_batches, i, batch, k, opportunities, responses, calls,
                   progress>>

\* a faulty variant: the batches are numbered from 0
ReportProgress_FromZero ==
    /\ pc = "callback"
    /\ progress' = IF progress_callback = "none" THEN progress
                   ELSE Append(progress, <<i \div batch_size, total_batches>>)
    /\ IF progress_callback = "fails"
       THEN /\ pc' = "raised"
            /\ UNCHANGED i
       ELSE /\ i' = i + batch_size
            /\ pc' = "loop"
    /\ UNCHANGED <<dvars, mvars, xvars, batches, input, batch_size, max_items_per_file, progress_callback,
                   hashseed, now, content_items, truncation_reported,
                   total_batches, batch, k, opportunities, all_opportunities,
                   responses, calls>>

\* lines 94-97 and the loop increment of line 85.  The callback is called
\* outside any try: when it raises, analyze_content_items raises.
ReportProgress ==
    /\ pc = "callback"
    /\ progress' = IF progress_callback = "none" THEN progress
                   ELSE Append(progress, <<(i \div batch_size) + 1, total_batches>>)
    /\ IF progress_callback = "fails"
       THEN /\ pc' = "raised"
            /\ UNCHANGED i
       ELSE /\ i' = i + batch_size
            /\ pc' = "loop"
    /\ UNCHANGED <<dvars, mvars, xvars, batches, input, batch_size, max_items_per_file, progress_callback,
                   hashseed, now, content_items, truncation_reported,
                   total_batches, batch, k, opportunities, all_opportunities,
                   responses, calls>>

NextAnalyzer ==
    \/ Truncate
    \/ TakeBatch
    \/ Return
    \/ AnalyzeBatchSingle
    \/ AnalyzeBatchMultiple
    \/ FallbackItem
    \/ FallbackReturn
    \/ ReportProgress

-----------------------------------------------------------------------------
(* OpportunityDeduplicator: the functions *)

\* the elements of a list, as set(list) gives them
Range(s) == {s[x] : x \in DOMAIN s}

\* list(a_set): the elements once each, in an order the code does not fix
Orderings(S) ==
    {o \in [1..Cardinality(S) -> S] :
        \A x, y \in 1..Cardinality(S) : x # y => o[x] # o[y]}

\* min() of a non-empty collection of numbers
Minimum(S) == CHOOSE m \in S : \A x \in S : m <= x

Whitespace == {" ", "\t", "\n"}

RECURSIVE LStrip(_)
LStrip(str) ==
    IF str # <<>> /\ Head(str) \in Whitespace THEN LStrip(Tail(str)) ELSE str

RECURSIVE RStrip(_)
RStrip(str) ==
    IF str # <<>> /\ str[Len(str)] \in Whitespace
    THEN RStrip(SubSeq(str, 1, Len(str) - 1))
    ELSE str

\* str.strip()
Strip(str) == RStrip(LStrip(str))

UpperLetters ==
    <<"A", "B", "C", "D", "E", "F", "G", "H", "I", "J", "K", "L", "M",
      "N", "O", "P", "Q", "R", "S", "T", "U", "V", "W", "X", "Y", "Z">>

LowerLetters ==
    <<"a", "b", "c", "d", "e", "f", "g", "h", "i", "j", "k", "l", "m",
      "n", "o", "p", "q", "r", "s", "t", "u", "v", "w", "x", "y", "z">>

LowerChar(c) ==
    IF \E x \in 1..Len(UpperLetters) : UpperLetters[x] = c
    THEN LowerLetters[CHOOSE x \in 1..Len(UpperLetters) : UpperLetters[x] = c]
    ELSE c

\* str.lower()
Lower(str) ==
    IF str = <<>> THEN <<>> ELSE [x \in 1..Len(str) |-> LowerChar(str[x])]

RECURSIVE Join(_, _)
\* sep.join(strs)
Join(sep, strs) ==
    IF strs = <<>> THEN <<>>
    ELSE IF Len(strs) = 1 THEN strs[1]
    ELSE strs[1] \o sep \o Join(sep, Tail(strs))

RECURSIVE UniqueFrom(_, _, _)
\* the loop of lines 396-400 from the state (unique_descriptions, seen)
UniqueFrom(descriptions, unique_descriptions, seen) ==
    IF descriptions = <<>> THEN unique_descriptions
    ELSE
      LET desc == Head(descriptions)
          desc_clean == Lower(Strip(desc))
      IN  IF desc_clean \notin seen /\ desc_clean # <<>>
          THEN UniqueFrom(Tail(descriptions),
                          Append(unique_descriptions, Strip(desc)),
                          seen \cup {desc_clean})
          ELSE UniqueFrom(Tail(descriptions), unique_descriptions, seen)

\* _merge_descriptions
MergeDescriptions(descriptions) ==
    IF Len(descriptions) = 1 THEN descriptions[1]
    ELSE
      LET unique_descriptions == UniqueFrom(descriptions, <<>>, {})
      IN  IF Len(unique_descriptions) = 1 THEN unique_descriptions[1]
          ELSE Join(<<" ", "|", " ">>, unique_descriptions)

ValidSeverities == {"low", "medium", "high", "critical"}

\* severity_order.get(severity, 0) of lines 409 and 415
SeverityOrder(severity) ==
    CASE severity = "low" -> 1
      [] severity = "medium" -> 2
      [] severity = "high" -> 3
      [] severity = "critical" -> 4
      [] OTHER -> 0

RECURSIVE HighestFrom(_, _, _)
\* the loop of lines 414-418 from the state (highest_severity, highest_value)
HighestFrom(severities, highest_severity, highest_value) ==
    IF severities = <<>> THEN highest_severity
    ELSE
      LET value == SeverityOrder(Head(severities))
      IN  IF value > highest_value
          THEN HighestFrom(Tail(severities), Head(severities), value)
          ELSE HighestFrom(Tail(severities), highest_severity, highest_value)

\* a faulty variant: the first severity, the base's, is taken
GetHighestSeverity_First(severities) == severities[1]

\* _get_highest_severity
GetHighestSeverity(severities) == HighestFrom(severities, "low", 0)

\* all_sources after the loop of lines 360-365
AllSources(opps) == Concat([x \in 1..Len(opps) |-> opps[x].sources])

\* all_keywords after the loop of lines 360-365
AllKeywords(opps) == UNION {Range(opps[x].keywords) : x \in 1..Len(opps)}

RECURSIVE TotalFrequency(_)
\* total_frequency after the loop of lines 360-365
TotalFrequency(opps) ==
    IF opps = <<>> THEN 0 ELSE Head(opps).frequency + TotalFrequency(Tail(opps))

\* a faulty variant: merged_ids takes every member after the first, with no
\* test of its id
MergedIds_EveryLater(opps) == [x \in 1..(Len(opps) - 1) |-> opps[x + 1].id]

\* merged_ids after the loop of lines 360-365
MergedIds(opps) ==
    LET ids == [x \in 1..Len(opps) |-> opps[x].id]
        NotBase(id) == id # opps[1].id
    IN  SelectSeq(ids, NotBase)

\* a faulty variant: the frequency counts the members
TotalFrequency_CountsMembers(opps) == Len(opps)

\* a faulty variant of the merge: it takes total_frequency from the above
MergeOpportunityGroup_CountsMembers(opps, clock, sources_list, keywords_list) ==
    IF Len(opps) = 1 THEN opps[1]
    ELSE [opps[1] EXCEPT
            !.description = MergeDescriptions([x \in 1..Len(opps) |-> opps[x].description]),
            !.severity = GetHighestSeverity([x \in 1..Len(opps) |-> opps[x].severity]),
            !.frequency = TotalFrequency_CountsMembers(opps),
            !.sources = sources_list,
            !.keywords = keywords_list,
            !.created_at = Minimum({opps[x].created_at : x \in 1..Len(opps)}),
            !.updated_at = clock,
            !.processing_date = Minimum({opps[x].processing_date : x \in 1..Len(opps)}),
            !.merged_from = MergedIds(opps)]

\* a faulty variant of the merge: the sources keep their duplicates
MergeOpportunityGroup_KeepsDuplicates(opps, clock, sources_list, keywords_list) ==
    IF Len(opps) = 1 THEN opps[1]
    ELSE [opps[1] EXCEPT
            !.description = MergeDescriptions([x \in 1..Len(opps) |-> opps[x].description]),
            !.severity = GetHighestSeverity([x \in 1..Len(opps) |-> opps[x].severity]),
            !.frequency = TotalFrequency(opps),
            !.sources = AllSources(opps),
            !.keywords = keywords_list,
            !.created_at = Minimum({opps[x].created_at : x \in 1..Len(opps)}),
            !.updated_at = clock,
            !.processing_date = Minimum({opps[x].processing_date : x \in 1..Len(opps)}),
            !.merged_from = MergedIds(opps)]

\* a faulty variant of the merge: no early return for a single member
MergeOpportunityGroup_AlwaysRebuilds(opps, clock, sources_list, keywords_list) ==
    [opps[1] EXCEPT
        !.description = MergeDescriptions([x \in 1..Len(opps) |-> opps[x].description]),
        !.severity = GetHighestSeverity([x \in 1..Len(opps) |-> opps[x].severity]),
        !.frequency = TotalFrequency(opps),
        !.sources = sources_list,
        !.keywords = keywords_list,
        !.created_at = Minimum({opps[x].created_at : x \in 1..Len(opps)}),
        !.updated_at = clock,
        !.processing_date = Minimum({opps[x].processing_date : x \in 1..Len(opps)}),
        !.merged_from = MergedIds(opps)]

\* a faulty variant of the merge: the dates are the base record's
MergeOpportunityGroup_BaseDates(opps, clock, sources_list, keywords_list) ==
    IF Len(opps) = 1 THEN opps[1]
    ELSE [opps[1] EXCEPT
            !.description = MergeDescriptions([x \in 1..Len(opps) |-> opps[x].description]),
            !.severity = GetHighestSeverity([x \in 1..Len(opps) |-> opps[x].severity]),
            !.frequency = TotalFrequency(opps),
            !.sources = sources_list,
            !.keywords = keywords_list,
            !.updated_at = clock,
            !.merged_from = MergedIds(opps)]

\* a faulty variant: the first member is returned, the others are dropped
MergeOpportunityGroup_FirstOnly(opps, clock, sources_list, keywords_list) ==
    opps[1]

\* _merge_opportunity_group.  sources_list is the order list(set(all_sources))
\* comes in, keywords_list the order of list(all_keywords).  The merged record
\* is the base record but for the fields computed here: id, title, category,
\* status and comments are the base's.
MergeOpportunityGroup(opps, clock, sources_list, keywords_list) ==
    IF Len(opps) = 1 THEN opps[1]
    ELSE [opps[1] EXCEPT
            !.description = MergeDescriptions([x \in 1..Len(opps) |-> opps[x].description]),
            !.severity = GetHighestSeverity([x \in 1..Len(opps) |-> opps[x].severity]),
            !.frequency = TotalFrequency(opps),
            !.sources = sources_list,
            !.keywords = keywords_list,
            !.created_at = Minimum({opps[x].created_at : x \in 1..Len(opps)}),
            !.updated_at = clock,
            !.processing_date = Minimum({opps[x].processing_date : x \in 1..Len(opps)}),
            !.merged_from = MergedIds(opps)]

\* the orders list(set(all_sources)) may come in
SourceOrderings(opps) == Orderings(Range(AllSources(opps)))

\* the orders list(all_keywords) may come in
KeywordOrderings(opps) == Orderings(AllKeywords(opps))

\* a faulty variant: the seed must be exceeded, not reached
Similar_Strict(matrix, threshold, group, j) == matrix[group[1]][j] > threshold

\* a faulty variant: any member of the group may attach a later opportunity
Similar_AnyMember(matrix, threshold, group, j) ==
    \E x \in 1..Len(group) : matrix[group[x]][j] >= threshold

\* the similarity test of line 338; group[1] is the seed i
Similar(matrix, threshold, group, j) == matrix[group[1]][j] >= threshold

RECURSIVE ScanLater_Unmarked(_, _, _, _, _)
\* a faulty variant: an opportunity put in the group is not marked visited
ScanLater_Unmarked(matrix, threshold, j, vis, group) ==
    IF j > Len(vis) THEN [visited |-> vis, group |-> group]
    ELSE IF ~vis[j] /\ Similar(matrix, threshold, group, j)
    THEN ScanLater_Unmarked(matrix, threshold, j + 1, vis, Append(group, j))
    ELSE ScanLater_Unmarked(matrix, threshold, j + 1, vis, group)

RECURSIVE ScanLater(_, _, _, _, _)
\* the loop of lines 337-340 from position j on, from the state (visited, group)
ScanLater(matrix, threshold, j, vis, group) ==
    IF j > Len(vis) THEN [visited |-> vis, group |-> group]
    ELSE IF ~vis[j] /\ Similar(matrix, threshold, group, j)
    THEN ScanLater(matrix, threshold, j + 1, [vis EXCEPT ![j] = TRUE],
                   Append(group, j))
    ELSE ScanLater(matrix, threshold, j + 1, vis, group)

-----------------------------------------------------------------------------
(* The inputs of the deduplicator *)

\* the default of line 287, 0.8
DefaultSimilarityThreshold == 80

\* similarities other than that of a text with itself
SimilarityLevels == {70, 80, 95}

\* the text of line 305
Text(opp) == <<opp.title, opp.description>>

RawOther ==
    [title |-> "Checkout is slow", description |-> <<"L", "a", "g">>,
     severity |-> "critical", keywords |-> <<"slow">>]

\* opportunities as the factory makes them in one run
DedupPool(seed) ==
    {CreateOpportunityFromAnalysis(RawFull, ContentItem(1), seed, 1).value[1],
     CreateOpportunityFromAnalysis(RawTitleOnly, ContentItem(1), seed, 1).value[1],
     CreateOpportunityFromAnalysis(RawOther, ContentItem(2), seed, 2).value[1]}

\* cosine similarities of the embeddings of the texts: symmetric, 1.0 for a
\* text with itself
SimilarityMatrices(opps) ==
    LET n == Len(opps)
        Pairs == {pr \in (1..n) \X (1..n) : pr[1] < pr[2]}
    IN  {[x \in 1..n |-> [y \in 1..n |->
            IF Text(opps[x]) = Text(opps[y]) THEN 100
            ELSE IF x < y THEN u[<<x, y>>] ELSE u[<<y, x>>]]] :
         u \in [Pairs -> SimilarityLevels]}

\* records as _merge_opportunity_group may be handed them: made by the
\* factory, or kept from an earlier merge and later updated
Made1 == CreateOpportunityFromAnalysis(RawFull, ContentItem(1), 0, 2).value[1]

Made2 == CreateOpportunityFromAnalysis(RawTitleOnly, ContentItem(2), 0, 3).value[1]

Kept1 ==
    [Made1 EXCEPT
        !.description = <<" ", "s", "L", "O", "W", " ">>,
        !.severity = "critical",
        !.frequency = 2,
        !.sources = <<2, 1>>,
        !.keywords = <<"slow", "cart">>,
        !.created_at = 1,
        !.updated_at = 4,
        !.processing_date = 2,
        !.status = "en_proceso",
        !.comments = "seen",
        !.merged_from = <<<<"opp", 2, 4711>>>>]

Made3 ==
    [Made2 EXCEPT
        !.id = <<"opp", 3, 1234>>,
        !.description = <<>>,
        !.severity = "low",
        !.sources = <<3>>,
        !.keywords = <<"cart">>,
        !.processing_date = 1]

Unvalidated ==
    [Made2 EXCEPT
        !.id = <<"opp", 2, 4711>>,
        !.title = "Slow checkout",
        !.description = <<"L", "a", "g">>,
        !.severity = "urgent"]

MergePool == {Made1, Made2, Kept1, Made3, Unvalidated}

-----------------------------------------------------------------------------
(* deduplicate_opportunities *)

AnalyzerIdle ==
    /\ input = <<>>
    /\ batch_size = 1
    /\ max_items_per_file = 1
    /\ progress_callback = "none"
    /\ pc = "idle"
    /\ content_items = <<>>
    /\ truncation_reported = FALSE
    /\ total_batches = 0
    /\ i = 0
    /\ batch = <<>>
    /\ batches = <<>>
    /\ k = 0
    /\ opportunities = <<>>
    /\ all_opportunities = <<>>
    /\ responses = <<>>
    /\ calls = <<>>
    /\ progress = <<>>

DedupIdle ==
    /\ dedup_input = <<>>
    /\ similarity_matrix = <<>>
    /\ similarity_threshold = DefaultSimilarityThreshold
    /\ arg_similarity_threshold = None
    /\ dpc = "idle"
    /\ visited = <<>>
    /\ groups = <<>>
    /\ gi = 0
    /\ mi = 0
    /\ merged_opportunities = <<>>

MergeIdle ==
    /\ cluster = <<>>
    /\ merged = <<>>
    /\ mpc = "idle"

\* lines 282-289 and the entry of deduplicate_opportunities
\* lines 301-302
ReturnEmpty ==
    /\ dpc = "start"
    /\ dedup_input = <<>>
    /\ merged_opportunities' = <<>>
    /\ dpc' = "done"
    /\ UNCHANGED <<svars, avars, mvars, xvars, dedup_input, similarity_matrix,
                   similarity_threshold, arg_similarity_threshold, visited, groups, gi, mi>>

\* lines 305-312 and 324-326
BeginGrouping ==
    /\ dpc = "start"
    /\ dedup_input # <<>>
    /\ visited' = [x \in 1..Len(dedup_input) |-> FALSE]
    /\ groups' = <<>>
    /\ gi' = 1
    /\ dpc' = "grouping"
    /\ UNCHANGED <<svars, avars, mvars, xvars, dedup_input, similarity_matrix,
                   similarity_threshold, arg_similarity_threshold, mi, merged_opportunities>>

\* lines 328-330: the opportunity is in a group already
SkipVisited ==
    /\ dpc = "grouping"
    /\ gi <= Len(dedup_input)
    /\ visited[gi]
    /\ gi' = gi + 1
    /\ UNCHANGED <<svars, avars, mvars, xvars, dedup_input, similarity_matrix,
                   similarity_threshold, arg_similarity_threshold, dpc, visited, groups, mi,
                   merged_opportunities>>

\* lines 332-342: a new group seeded by the opportunity
OpenGroup ==
    /\ dpc = "grouping"
    /\ gi <= Len(dedup_input)
    /\ ~visited[gi]
    /\ LET scan == ScanLater(similarity_matrix, similarity_threshold, gi + 1,
                             [visited EXCEPT ![gi] = TRUE], <<gi>>)
       IN  /\ visited' = scan.visited
           /\ groups' = Append(groups, scan.group)
    /\ gi' = gi + 1
    /\ UNCHANGED <<svars, avars, mvars, xvars, dedup_input, similarity_matrix,
                   similarity_threshold, arg_similarity_threshold, dpc, mi, merged_opportunities>>

\* line 344, then line 315
GroupsFound ==
    /\ dpc = "grouping"
    /\ gi > Len(dedup_input)
    /\ merged_opportunities' = <<>>
    /\ mi' = 1
    /\ dpc' = "merging"
    /\ UNCHANGED <<svars, avars, mvars, xvars, dedup_input, similarity_matrix,
                   similarity_threshold, arg_similarity_threshold, visited, groups, gi>>

\* the opportunities of a group
Members(group) == [x \in 1..Len(group) |-> dedup_input[group[x]]]

\* lines 316-318: one group is merged
MergeGroup ==
    /\ dpc = "merging"
    /\ mi <= Len(groups)
    /\ \E sources_list \in SourceOrderings(Members(groups[mi])) :
       \E keywords_list \in KeywordOrderings(Members(groups[mi])) :
          merged_opportunities' =
             Append(merged_opportunities,
                    MergeOpportunityGroup(Members(groups[mi]), now,
                                          sources_list, keywords_list))
    /\ mi' = mi + 1
    /\ now' = now + 1
    /\ UNCHANGED <<avars, mvars, xvars, hashseed, dedup_input, similarity_matrix,
                   similarity_threshold, arg_similarity_threshold, dpc, visited, groups, gi>>

\* line 320
DedupReturn ==
    /\ dpc = "merging"
    /\ mi > Len(groups)
    /\ dpc' = "done"
    /\ UNCHANGED <<svars, avars, mvars, xvars, dedup_input, similarity_matrix,
                   similarity_threshold, arg_similarity_threshold, visited, groups, gi, mi,
                   merged_opportunities>>

NextDeduplicator ==
    \/ ReturnEmpty
    \/ BeginGrouping
    \/ SkipVisited
    \/ OpenGroup
    \/ GroupsFound
    \/ MergeGroup
    \/ DedupReturn

-----------------------------------------------------------------------------
(* _merge_opportunity_group called on a list of its own *)

InitMerge ==
    /\ hashseed = 0
    /\ now = 5
    /\ \E n \in 1..MaxCluster : cluster \in [1..n -> MergePool]
    /\ merged = <<>>
    /\ mpc = "call"

MergeCluster ==
    /\ mpc = "call"
    /\ \E sources_list \in SourceOrderings(cluster) :
       \E keywords_list \in KeywordOrderings(cluster) :
          merged' = MergeOpportunityGroup(cluster, now, sources_list,
                                          keywords_list)
    /\ mpc' = "merged"
    /\ UNCHANGED <<svars, avars, dvars, xvars, cluster>>

NextMerge == MergeCluster

-----------------------------------------------------------------------------
(* _create_opportunity_from_analysis called on a raw record of its own *)

\* the fields the response format of lines 191-201 gives a raw record
RecordFields == {"title", "description", "category", "severity", "keywords"}

\* a raw record that has every field, with one title or the other
FullRecords == {RawFull, [RawFull EXCEPT !.title = "Checkout is slow"]}

\* the raw records the backend may give: any of the fields may be missing
RawRecords ==
    {[f \in present |-> full[f]] : present \in SUBSET RecordFields,
                                   full \in FullRecords}

\* no Opportunity
NoOpportunity == [id |-> <<>>]

FactoryIdle ==
    /\ arg_opp_data = <<>>
    /\ arg_content_item = ContentItem(0)
    /\ opportunity = NoOpportunity
    /\ before = <<>>
    /\ fpc = "idle"

InitFactory ==
    /\ hashseed \in HashSeeds
    /\ now = 1
    /\ arg_opp_data \in RawRecords
    /\ \E n \in 1..MaxItems : arg_content_item = ContentItem(n)
    /\ opportunity = NoOpportunity
    /\ before = <<>>
    /\ fpc = "call"

\* one call of _create_opportunity_from_analysis, no processing_date given
CreateOpportunity ==
    /\ fpc = "call"
    /\ LET r == CreateOpportunityFromAnalysis(arg_opp_data, arg_content_item,
                                              hashseed, now)
       IN  IF r.raised
           THEN /\ fpc' = "raised"
                /\ UNCHANGED opportunity
           ELSE /\ fpc' = "returned"
                /\ opportunity' = r.value[1]
    /\ UNCHANGED <<svars, avars, dvars, mvars, pvars, cvars, kvars, hvars, ivars, arg_opp_data, arg_content_item, before>>

\* The process ends and the pipeline is started again (main.py is run once
\* per file): the new process has a string-hash seed of its own.
Restart ==
    /\ fpc \in {"returned", "raised"}
    /\ before = <<>>
    /\ hashseed' \in HashSeeds \ {hashseed}
    /\ UNCHANGED <<now, avars, dvars, mvars, pvars, cvars, kvars, hvars, ivars, fvars>>

\* the factory is called once more, later, on any raw record of any item
CallAgain ==
    /\ fpc \in {"returned", "raised"}
    /\ before = <<>>
    /\ before' = <<[opp_data |-> arg_opp_data,
                    content_item |-> arg_content_item,
                    raised |-> (fpc = "raised"),
                    opportunity |-> opportunity]>>
    /\ arg_opp_data' \in RawRecords
    /\ \E n \in 1..MaxItems : arg_content_item' = ContentItem(n)
    /\ opportunity' = NoOpportunity
    /\ now' = now + 1
    /\ fpc' = "call"
    /\ UNCHANGED <<hashseed, avars, dvars, mvars, pvars, cvars, kvars, hvars, ivars>>

NextFactory ==
    \/ CreateOpportunity
    \/ Restart
    \/ CallAgain

-----------------------------------------------------------------------------
(* _parse_ai_response called on a text of its own *)

\* the longest text of pieces tried
MaxTextLen == 3

\* the pieces the texts are made of
Pieces ==
    {OpenBrace, CloseBrace, Prose, TooDeep, TooManyDigits,
     MemberText([opportunities |-> <<>>]),
     MemberText([opportunities |-> <<RawTitleOnly>>])}

\* every sequence of pieces up to the length tried, and the analyzer's texts
Texts ==
    UNION {[1..n -> Pieces] : n \in 0..MaxTextLen} \cup ResponseTexts

NotParsed == [raised |-> FALSE, value |-> <<>>]

ParserIdle ==
    /\ arg_response_text = <<>>
    /\ parsed = NotParsed
    /\ ppc = "idle"

InitParser ==
    /\ hashseed = 0
    /\ now = 1
    /\ arg_response_text \in Texts
    /\ parsed = NotParsed
    /\ ppc = "call"

ParseResponse ==
    /\ ppc = "call"
    /\ parsed' = ParseAIResponse(arg_response_text)
    /\ ppc' = IF parsed'.raised THEN "raised" ELSE "returned"
    /\ UNCHANGED <<svars, avars, dvars, mvars, fvars, cvars, kvars, hvars, ivars, arg_response_text>>

NextParser == ParseResponse

-----------------------------------------------------------------------------
(* _analyze_single_item called on a content item of its own *)

\* the longest list of raw records in a response
MaxRecords == 2

\* the lists of raw records a response may hold: full records, records of a
\* title only and records without a title, in any order
SingleRecordLists ==
    UNION {[1..n -> {RawFull, RawTitleOnly, RawUntitled}] : n \in 0..MaxRecords}

\* what the analysis of the item may meet
SingleOutcomes ==
    {[fails |-> "prompt", text |-> TextNoJson],
     [fails |-> "backend", text |-> TextNoJson]}
        \cup {[fails |-> "nothing", text |-> t] :
                 t \in {TextNoJson, TextInvalidJson, TextObject(NoObject),
                        <<OpenBrace, TooDeep, CloseBrace>>}}
        \cup {[fails |-> "nothing", text |-> TextObject([opportunities |-> rl])] :
                 rl \in SingleRecordLists}

SingleIdle ==
    /\ arg_item = ContentItem(0)
    /\ met_outcome = NotAnalyzed
    /\ item_opportunities = <<>>
    /\ ipc = "idle"

InitSingle ==
    /\ hashseed \in HashSeeds
    /\ now = 1
    /\ \E n \in 1..MaxItems : arg_item = ContentItem(n)
    /\ met_outcome \in SingleOutcomes
    /\ item_opportunities = <<>>
    /\ ipc = "call"

\* one call of _analyze_single_item
AnalyzeItem ==
    /\ ipc = "call"
    /\ LET r == AnalyzeSingleItem(arg_item, met_outcome, hashseed, now)
       IN  IF r.raised
           THEN /\ ipc' = "raised"
                /\ UNCHANGED item_opportunities
           ELSE /\ ipc' = "returned"
                /\ item_opportunities' = r.value
    /\ now' = now + 1
    /\ UNCHANGED <<hashseed, avars, dvars, mvars, fvars, pvars, cvars, kvars,
                   hvars, arg_item, met_outcome>>

NextSingle == AnalyzeItem

-----------------------------------------------------------------------------
(* AIAnalyzer.__init__ *)

Digits == {"0", "1", "2", "3", "4", "5", "6", "7", "8", "9"}

DigitValue(c) ==
    CASE c = "0" -> 0 [] c = "1" -> 1 [] c = "2" -> 2 [] c = "3" -> 3
      [] c = "4" -> 4 [] c = "5" -> 5 [] c = "6" -> 6 [] c = "7" -> 7
      [] c = "8" -> 8 [] c = "9" -> 9

RECURSIVE NumberOf(_)
\* the number a sequence of digits writes
NumberOf(digits) ==
    IF digits = <<>> THEN 0
    ELSE 10 * NumberOf(SubSeq(digits, 1, Len(digits) - 1))
            + DigitValue(digits[Len(digits)])

\* int(text) for a text of digits, signs, letters and blanks: the blanks
\* around are dropped, one sign may lead, and the rest must be digits, at
\* least one; anything else raises ValueError.
IntOf(text) ==
    LET stripped == Strip(text)
        signed == stripped # <<>> /\ stripped[1] \in {"+", "-"}
        digits == IF signed THEN Tail(stripped) ELSE stripped
    IN  IF digits = <<>> \/ \E p \in 1..Len(digits) : digits[p] \notin Digits
        THEN [raised |-> TRUE, value |-> 0]
        ELSE [raised |-> FALSE,
              value |-> IF signed /\ stripped[1] = "-"
                        THEN 0 - NumberOf(digits) ELSE NumberOf(digits)]

\* the variables __init__ reads
KeyVariable == "ANTHROPIC_API_KEY"

NumberVariables ==
    {"MAX_OPPORTUNITIES_PER_INPUT", "AI_BATCH_SIZE", "MAX_ITEMS_PER_FILE"}

\* texts a key may be: empty or not
KeyTexts == {<<>>, <<"s", "k">>}

\* texts a number variable may be set to
NumberTexts ==
    {<<"2">>, <<" ", "3", " ">>, <<"-", "1">>, <<"t", "e", "n">>, <<>>}

\* the environments: any of the variables may be unset
Environments ==
    UNION {{env \in [present -> KeyTexts \cup NumberTexts] :
              \A name \in present :
                 IF name = KeyVariable THEN env[name] \in KeyTexts
                 ELSE env[name] \in NumberTexts} :
           present \in SUBSET ({KeyVariable} \cup NumberVariables)}

NoClient == [api_key |-> None]

NoSettings == [api_key |-> None]

\* no AIAnalyzer is being constructed
NoAnalyzer ==
    /\ arg_api_key = None
    /\ settings = NoSettings
    /\ client = NoClient
    /\ cpc = "idle"

ConstructorIdle ==
    /\ NoAnalyzer
    /\ environ = <<>>

InitConstructor ==
    /\ hashseed = 0
    /\ now = 1
    /\ arg_api_key \in {None} \cup {Str(text) : text \in KeyTexts}
    /\ environ \in Environments
    /\ settings = NoSettings
    /\ client = NoClient
    /\ cpc = "settings"

\* lines 52-56: the key and the three numbers; int() may raise
ReadSettings ==
    /\ cpc = "settings"
    /\ LET max_opportunities ==
              IntOf(Getenv(environ, "MAX_OPPORTUNITIES_PER_INPUT",
                           Str(<<"3">>)).str)
           batches_of ==
              IntOf(Getenv(environ, "AI_BATCH_SIZE", Str(<<"1", "0">>)).str)
           max_items ==
              IntOf(Getenv(environ, "MAX_ITEMS_PER_FILE",
                           Str(<<"5", "0", "0">>)).str)
           key == Or(arg_api_key, Getenv(environ, KeyVariable, None))
       IN  IF max_opportunities.raised \/ batches_of.raised \/ max_items.raised
           THEN /\ cpc' = "raised"
                /\ settings' = [api_key |-> key]
           ELSE /\ cpc' = "key"
                /\ settings' = [api_key |-> key,
                                max_opportunities |-> max_opportunities.value,
                                batch_size |-> batches_of.value,
                                max_items_per_file |-> max_items.value]
    /\ UNCHANGED <<svars, avars, dvars, mvars, fvars, pvars, kvars, hvars, ivars, arg_api_key,
                   environ, client>>

\* lines 58-59
CheckKey ==
    /\ cpc = "key"
    /\ cpc' = IF Falsy(settings.api_key) THEN "raised" ELSE "client"
    /\ UNCHANGED <<svars, avars, dvars, mvars, fvars, pvars, kvars, hvars, ivars, arg_api_key,
                   environ, settings, client>>

\* line 61
CreateClient ==
    /\ cpc = "client"
    /\ client' = [api_key |-> settings.api_key]
    /\ cpc' = "constructed"
    /\ UNCHANGED <<svars, avars, dvars, mvars, fvars, pvars, kvars, hvars, ivars, arg_api_key,
                   environ, settings>>

NextConstructor ==
    \/ ReadSettings
    \/ CheckKey
    \/ CreateClient

-----------------------------------------------------------------------------
(* OpportunityDeduplicator.__init__ *)

\* float(text) in hundredths, for a text of digits, one point and at most two
\* digits after it, blanks around dropped; anything else raises ValueError
FloatOf(text) ==
    LET stripped == Strip(text)
        points == {q \in 1..Len(stripped) : stripped[q] = "."}
        point == IF points = {} THEN Len(stripped) + 1
                 ELSE CHOOSE q \in points : TRUE
        whole == SubSeq(stripped, 1, point - 1)
        part == SubSeq(stripped, point + 1, Len(stripped))
        digits == whole \o part
    IN  IF \/ Cardinality(points) > 1
           \/ digits = <<>>
           \/ Len(part) > 2
           \/ \E q \in 1..Len(digits) : digits[q] \notin Digits
        THEN [raised |-> TRUE, value |-> 0]
        ELSE [raised |-> FALSE,
              value |-> 100 * NumberOf(whole)
                        + (IF Len(part) = 1 THEN 10 * NumberOf(part)
                           ELSE NumberOf(part))]

ThresholdVariable == "SIMILARITY_THRESHOLD"

\* line 287: similarity_threshold or float(os.getenv(..., '0.8')); the
\* right side is evaluated only when the left side is falsy
ThresholdOf(supplied, env) ==
    IF ~Falsy(supplied) THEN [raised |-> FALSE, value |-> supplied.num]
    ELSE FloatOf(Getenv(env, ThresholdVariable, Str(<<"0", ".", "8">>)).str)

\* SIMILARITY_THRESHOLD unset, and set to 0.7
Unset == <<>>

SetTo07 == [name \in {ThresholdVariable} |-> <<"0", ".", "7">>]

\* how a deduplicator may be constructed: with no threshold, with 0.0 or
\* with 0.95, SIMILARITY_THRESHOLD being set or not
Constructions ==
    {[supplied |-> None, env |-> Unset],
     [supplied |-> None, env |-> SetTo07],
     [supplied |-> Num(0), env |-> Unset],
     [supplied |-> Num(95), env |-> SetTo07]}

\* records as deduplicate_opportunities may be handed them: made by the
\* factory, or kept from an earlier merge
MixedPool == {Made1, Kept1, Made3}

\* a deduplicator constructed in one of the given ways, and the list handed
\* to deduplicate_opportunities, of records of the pool of the process
Constructed(seeds, ways, pools) ==
    /\ hashseed \in seeds
    /\ now = 5
    /\ \E n \in 0..MaxOpps : dedup_input \in [1..n -> pools[hashseed]]
    /\ similarity_matrix \in SimilarityMatrices(dedup_input)
    /\ \E way \in ways : /\ arg_similarity_threshold = way.supplied
                          /\ environ = way.env
    /\ ~ThresholdOf(arg_similarity_threshold, environ).raised
    /\ similarity_threshold = ThresholdOf(arg_similarity_threshold, environ).value
    /\ dpc = "start"
    /\ visited = <<>>
    /\ groups = <<>>
    /\ gi = 0
    /\ mi = 0
    /\ merged_opportunities = <<>>

\* OpportunityDeduplicator() with SIMILARITY_THRESHOLD unset
InitDeduplicator ==
    Constructed(HashSeeds, {[supplied |-> None, env |-> Unset]},
                [seed \in HashSeeds |-> DedupPool(seed)])

\* OpportunityDeduplicator(similarity_threshold) or OpportunityDeduplicator()
InitThreshold ==
    Constructed({0}, Constructions, [seed \in {0} |-> DedupPool(seed)])

\* OpportunityDeduplicator() handed records of both kinds
InitMixed ==
    Constructed({0}, {[supplied |-> None, env |-> Unset]},
                [seed \in {0} |-> MixedPool])

-----------------------------------------------------------------------------
(* KnowledgeBase: the opportunities table (src/src/knowledge_base.py) *)

\* the most calls made on one knowledge base
MaxOperations == 4

\* json.dumps of a list, as the column holds it
Json(list) == [json |-> list]

\* NULL
Null == [null |-> TRUE]

\* the row the INSERT OR REPLACE of lines 195-214 writes for an Opportunity
Row(opp) ==
    [id |-> opp.id,
     title |-> opp.title,
     description |-> opp.description,
     category |-> opp.category,
     severity |-> opp.severity,
     frequency |-> opp.frequency,
     sources |-> Json(opp.sources),
     keywords |-> Json(opp.keywords),
     created_at |-> opp.created_at,
     updated_at |-> opp.updated_at,
     processing_date |-> opp.processing_date,
     status |-> opp.status,
     comments |-> opp.comments,
     merged_from |-> IF opp.merged_from # <<>> THEN Json(opp.merged_from)
                     ELSE Null]

\* INSERT OR REPLACE: the row of that id is written, whether there was one
\* or not
InsertOrReplace(rows, opp) ==
    [id \in DOMAIN rows \cup {opp.id} |->
        IF id = opp.id THEN Row(opp) ELSE rows[id]]

RECURSIVE StoreAll(_, _)
\* the loop of lines 193-217 over the list
StoreAll(rows, opps) ==
    IF opps = <<>> THEN rows
    ELSE StoreAll(InsertOrReplace(rows, Head(opps)), Tail(opps))

\* line 508
ValidStatuses == {"nueva", "descartada", "en_proceso", "solucionada", "bloqueada"}

\* the statuses a caller may hand over: three of the valid ones and one
\* that is not valid
Statuses == {"nueva", "en_proceso", "bloqueada", "cerrada"}

\* the comments a caller may hand over
Comments == {"", "seen"}

\* what the pipeline of main.py hands to store_opportunities: records made
\* by the factory and records merged of them
Merged12 == MergeOpportunityGroup(<<Made1, Made2>>, 5, <<1, 2>>,
                                  <<"checkout", "slow">>)

StorePool == {Made1, Made2, Merged12}

\* the lists handed to store_opportunities: of the records the process holds
StoreLists == UNION {[1..n -> memory] : n \in 1..2}

\* the ids a caller may name: those of the pool and one never stored
UpdateIds == {opp.id : opp \in StorePool} \cup {Made3.id}

NoUpdate == [status |-> "never", comments |-> "never"]

\* no call yet
NoRequest == [op |-> "none"]

StoreIdle ==
    /\ table = <<>>
    /\ answer = "none"
    /\ last_update = <<>>
    /\ operations = 0
    /\ request = NoRequest
    /\ memory = {}

\* a new, empty knowledge base in a process that holds the given records
EmptyStore(held) ==
    /\ hashseed = 0
    /\ now = 6
    /\ table = <<>>
    /\ answer = "none"
    /\ last_update = [id \in UpdateIds |-> NoUpdate]
    /\ operations = 0
    /\ request = NoRequest
    /\ memory = held

\* a new, empty knowledge base after one run of the pipeline
InitStore == EmptyStore(StorePool)

\* store_opportunities
StoreOpportunities ==
    /\ operations < MaxOperations
    /\ \E opps \in StoreLists :
          /\ table' = StoreAll(table, opps)
          /\ answer' = [stored_count |-> Len(opps)]
          /\ request' = [op |-> "store_opportunities", opportunities |-> opps]
    /\ operations' = operations + 1
    /\ UNCHANGED <<svars, avars, dvars, mvars, fvars, pvars, cvars, hvars, ivars, last_update>>

\* update_opportunity_status without the check of lines 508-510
UpdateOpportunityStatus_Unchecked ==
    /\ operations < MaxOperations
    /\ \E opportunity_id \in UpdateIds, status \in Statuses :
          /\ request' = [op |-> "update_opportunity_status",
                         opportunity_id |-> opportunity_id, status |-> status]
          /\ IF opportunity_id \in DOMAIN table
             THEN /\ table' = [table EXCEPT ![opportunity_id].status = status,
                                            ![opportunity_id].updated_at = now]
                  /\ last_update' = [last_update EXCEPT ![opportunity_id].status = status]
                  /\ answer' = [success |-> TRUE]
             ELSE /\ answer' = [success |-> FALSE]
                  /\ UNCHANGED <<table, last_update>>
    /\ now' = now + 1
    /\ operations' = operations + 1
    /\ UNCHANGED <<hashseed, avars, dvars, mvars, fvars, pvars, cvars, hvars, ivars>>

\* update_opportunity_status
UpdateOpportunityStatus ==
    /\ operations < MaxOperations
    /\ \E opportunity_id \in UpdateIds, status \in Statuses :
          /\ request' = [op |-> "update_opportunity_status",
                         opportunity_id |-> opportunity_id, status |-> status]
          /\ IF status \notin ValidStatuses
             THEN /\ answer' = [raised |-> "ValueError"]
                  /\ UNCHANGED <<table, last_update>>
             ELSE IF opportunity_id \in DOMAIN table
             THEN /\ table' = [table EXCEPT ![opportunity_id].status = status,
                                            ![opportunity_id].updated_at = now]
                  /\ last_update' = [last_update EXCEPT ![opportunity_id].status = status]
                  /\ answer' = [success |-> TRUE]
             ELSE /\ answer' = [success |-> FALSE]
                  /\ UNCHANGED <<table, last_update>>
    /\ now' = now + 1
    /\ operations' = operations + 1
    /\ UNCHANGED <<hashseed, avars, dvars, mvars, fvars, pvars, cvars, hvars, ivars>>

\* a faulty variant: the comments are set, updated_at is left as it was
UpdateOpportunityComments_KeepsDate ==
    /\ operations < MaxOperations
    /\ \E opportunity_id \in UpdateIds, comments \in Comments :
          /\ request' = [op |-> "update_opportunity_comments",
                         opportunity_id |-> opportunity_id, comments |-> comments]
          /\ IF opportunity_id \in DOMAIN table
             THEN /\ table' = [table EXCEPT ![opportunity_id].comments = comments]
                  /\ last_update' = [last_update EXCEPT ![opportunity_id].comments = comments]
                  /\ answer' = [success |-> TRUE]
             ELSE /\ answer' = [success |-> FALSE]
                  /\ UNCHANGED <<table, last_update>>
    /\ now' = now + 1
    /\ operations' = operations + 1
    /\ UNCHANGED <<hashseed, avars, dvars, mvars, fvars, pvars, cvars, hvars, ivars>>

\* update_opportunity_comments
UpdateOpportunityComments ==
    /\ operations < MaxOperations
    /\ \E opportunity_id \in UpdateIds, comments \in Comments :
          /\ request' = [op |-> "update_opportunity_comments",
                         opportunity_id |-> opportunity_id, comments |-> comments]
          /\ IF opportunity_id \in DOMAIN table
             THEN /\ table' = [table EXCEPT ![opportunity_id].comments = comments,
                                            ![opportunity_id].updated_at = now]
                  /\ last_update' = [last_update EXCEPT ![opportunity_id].comments = comments]
                  /\ answer' = [success |-> TRUE]
             ELSE /\ answer' = [success |-> FALSE]
                  /\ UNCHANGED <<table, last_update>>
    /\ now' = now + 1
    /\ operations' = operations + 1
    /\ UNCHANGED <<hashseed, avars, dvars, mvars, fvars, pvars, cvars, hvars, ivars>>

NextStore ==
    \/ StoreOpportunities
    \/ UpdateOpportunityStatus
    \/ UpdateOpportunityComments

-----------------------------------------------------------------------------
(* The life of opportunities: made by the factory, merged, stored, updated *)

\* the most records the process holds
MaxHeld == 2

\* a raw record that carries a status of its own, as a backend may give it
RawWithStatus ==
    [title |-> "Checkout is slow", severity |-> "low", status |-> "cerrada"]

\* the raw records handed to the factory
LifeRecords == {RawFull, RawUntitled, RawWithStatus}

\* the groups handed to _merge_opportunity_group: of the records held
LifeGroups == UNION {[1..n -> memory] : n \in 1..2}

\* a process that holds no opportunity yet, on an empty knowledge base
InitLife == EmptyStore({})

\* _create_opportunity_from_analysis; the process keeps what it returns
MakeOpportunity ==
    /\ operations < MaxOperations
    /\ Cardinality(memory) < MaxHeld
    /\ \E opp_data \in LifeRecords, n \in 1..2 :
          LET r == CreateOpportunityFromAnalysis(opp_data, ContentItem(n),
                                                 hashseed, now)
          IN  /\ request' = [op |-> "_create_opportunity_from_analysis",
                             opp_data |-> opp_data, content_item |-> ContentItem(n)]
              /\ IF r.raised
                 THEN /\ answer' = [raised |-> "KeyError"]
                      /\ UNCHANGED memory
                 ELSE /\ answer' = [opportunity |-> r.value[1]]
                      /\ memory' = memory \cup {r.value[1]}
    /\ now' = now + 1
    /\ operations' = operations + 1
    /\ UNCHANGED <<hashseed, avars, dvars, mvars, fvars, pvars, cvars, ivars,
                   table, last_update>>

\* _merge_opportunity_group on records held; the process keeps the result
MergeHeld ==
    /\ operations < MaxOperations
    /\ Cardinality(memory) < MaxHeld
    /\ \E group \in LifeGroups :
       \E sources_list \in SourceOrderings(group),
          keywords_list \in KeywordOrderings(group) :
          LET merged_opp == MergeOpportunityGroup(group, now, sources_list,
                                                 keywords_list)
          IN  /\ request' = [op |-> "_merge_opportunity_group",
                             opportunities |-> group]
              /\ answer' = [opportunity |-> merged_opp]
              /\ memory' = memory \cup {merged_opp}
    /\ now' = now + 1
    /\ operations' = operations + 1
    /\ UNCHANGED <<hashseed, avars, dvars, mvars, fvars, pvars, cvars, ivars,
                   table, last_update>>

NextLife ==
    \/ MakeOpportunity
    \/ MergeHeld
    \/ StoreOpportunities
    \/ UpdateOpportunityStatus
    \/ UpdateOpportunityComments

-----------------------------------------------------------------------------
(* The specifications *)

Init == InitAnalyzer /\ DedupIdle /\ MergeIdle /\ FactoryIdle /\ ParserIdle
       /\ ConstructorIdle /\ StoreIdle /\ SingleIdle

Next == NextAnalyzer

\* one run of analyze_content_items
Spec == Init /\ [][Next]_vars

InitDedup == InitDeduplicator /\ AnalyzerIdle /\ MergeIdle /\ FactoryIdle /\ ParserIdle
       /\ NoAnalyzer /\ StoreIdle /\ SingleIdle

\* one run of deduplicate_opportunities
SpecDedup == InitDedup /\ [][NextDeduplicator]_vars

InitThresholdOnly ==
    InitThreshold /\ AnalyzerIdle /\ MergeIdle /\ FactoryIdle /\ ParserIdle
       /\ NoAnalyzer /\ StoreIdle /\ SingleIdle

\* one run of deduplicate_opportunities, whatever threshold the
\* deduplicator was constructed with
SpecThreshold == InitThresholdOnly /\ [][NextDeduplicator]_vars

InitMixedOnly ==
    InitMixed /\ AnalyzerIdle /\ MergeIdle /\ FactoryIdle /\ ParserIdle
       /\ NoAnalyzer /\ StoreIdle /\ SingleIdle

\* one run of deduplicate_opportunities on records made by the factory and
\* records kept from earlier merges
SpecMixed == InitMixedOnly /\ [][NextDeduplicator]_vars

InitMergeOnly ==
    InitMerge /\ AnalyzerIdle /\ DedupIdle /\ FactoryIdle /\ ParserIdle
       /\ ConstructorIdle /\ StoreIdle /\ SingleIdle

\* one call of _merge_opportunity_group
SpecMerge == InitMergeOnly /\ [][NextMerge]_vars

\* The run is one sequential thread: it keeps taking its next step.
FairSpec == Spec /\ WF_vars(Next)

InitAnyCallback ==
    EnterWith(Callbacks) /\ DedupIdle /\ MergeIdle /\ FactoryIdle /\ ParserIdle
       /\ ConstructorIdle /\ StoreIdle /\ SingleIdle

\* one run of analyze_content_items, whatever the callback does
SpecCallback == InitAnyCallback /\ [][Next]_vars

InitAnyBatchSize ==
    Enter({"none", "reports"}, BatchSizes) /\ DedupIdle /\ MergeIdle
       /\ FactoryIdle /\ ParserIdle /\ ConstructorIdle /\ StoreIdle /\ SingleIdle

\* one run of analyze_content_items, whatever the batch size is
SpecBatchSize == InitAnyBatchSize /\ [][Next]_vars

InitFactoryOnly ==
    InitFactory /\ AnalyzerIdle /\ DedupIdle /\ MergeIdle /\ ParserIdle
       /\ ConstructorIdle /\ StoreIdle /\ SingleIdle

\* _create_opportunity_from_analysis called twice, in one process or in two
SpecFactory == InitFactoryOnly /\ [][NextFactory]_vars

InitParserOnly ==
    InitParser /\ AnalyzerIdle /\ DedupIdle /\ MergeIdle /\ FactoryIdle
       /\ ConstructorIdle /\ StoreIdle /\ SingleIdle

\* one call of _parse_ai_response
SpecParser == InitParserOnly /\ [][NextParser]_vars

InitConstructorOnly ==
    InitConstructor /\ AnalyzerIdle /\ DedupIdle /\ MergeIdle /\ FactoryIdle
       /\ ParserIdle /\ StoreIdle /\ SingleIdle

\* one construction of an AIAnalyzer
SpecConstructor == InitConstructorOnly /\ [][NextConstructor]_vars

InitStoreOnly ==
    InitStore /\ AnalyzerIdle /\ DedupIdle /\ MergeIdle /\ FactoryIdle
       /\ ParserIdle /\ ConstructorIdle /\ SingleIdle

\* calls of store_opportunities, update_opportunity_status and
\* update_opportunity_comments on one knowledge base
SpecStore == InitStoreOnly /\ [][NextStore]_vars

InitLifeOnly ==
    InitLife /\ AnalyzerIdle /\ DedupIdle /\ MergeIdle /\ FactoryIdle
       /\ ParserIdle /\ ConstructorIdle /\ SingleIdle

InitSingleOnly ==
    InitSingle /\ AnalyzerIdle /\ DedupIdle /\ MergeIdle /\ FactoryIdle
       /\ ParserIdle /\ ConstructorIdle /\ StoreIdle

\* one call of _analyze_single_item
SpecSingle == InitSingleOnly /\ [][NextSingle]_vars

\* any sequence of factory calls, merges, stores and updates in one process
SpecLife == InitLifeOnly /\ [][NextLife]_vars

-----------------------------------------------------------------------------
(* process_file of main.py: the opportunities of one run are deduplicated
   and the deduplicated list is stored *)

\* a second raw record under the title of the first
RawSameTitle ==
    [title |-> "Slow checkout", description |-> <<"L", "a", "g">>,
     severity |-> "low"]

\* opportunities as the factory makes them of one item in one run: two under
\* one title, and one under another title, whose hash may collide
RunPool(seed) ==
    {CreateOpportunityFromAnalysis(RawFull, ContentItem(1), seed, 1).value[1],
     CreateOpportunityFromAnalysis(RawSameTitle, ContentItem(1), seed, 1).value[1],
     CreateOpportunityFromAnalysis(RawTitleOnly, ContentItem(1), seed, 1).value[1]}

\* line 88 entered: deduplicate_opportunities on the opportunities of the
\* run, the knowledge base empty
InitRun ==
    Constructed(HashSeeds, {[supplied |-> None, env |-> Unset]},
                [seed \in HashSeeds |-> RunPool(seed)])

\* line 98: store_opportunities on the list deduplicate_opportunities
\* returned
StoreDeduplicated ==
    /\ dpc = "done"
    /\ operations = 0
    /\ table' = StoreAll(table, merged_opportunities)
    /\ answer' = [stored_count |-> Len(merged_opportunities)]
    /\ request' = [op |-> "store_opportunities",
                   opportunities |-> merged_opportunities]
    /\ operations' = operations + 1
    /\ UNCHANGED <<svars, avars, dvars, mvars, fvars, pvars, cvars, hvars,
                   ivars, last_update>>

NextRun ==
    \/ NextDeduplicator
    \/ StoreDeduplicated

InitRunOnly ==
    InitRun /\ AnalyzerIdle /\ MergeIdle /\ FactoryIdle /\ ParserIdle
       /\ NoAnalyzer /\ StoreIdle /\ SingleIdle

\* lines 88-98 of process_file on a new knowledge base
SpecRun == InitRunOnly /\ [][NextRun]_vars

-----------------------------------------------------------------------------
(* What the claims about analyze_content_items speak of *)

Analyzed(id) == responses[id].outcome # NotAnalyzed

\* the analysis of an item succeeded: the prompt was built, the backend
\* answered, the parser decoded an object and every raw record has a title
Succeeded(outcome) ==
    /\ outcome.fails = "nothing"
    /\ \E rl \in RecordLists :
          /\ outcome.text = TextObject([opportunities |-> rl])
          /\ \A r \in 1..Len(rl) : "title" \in DOMAIN rl[r]

\* the raw records an item's analysis gave, none when it did not succeed
RawRecordsOf(id) ==
    IF Succeeded(responses[id].outcome)
    THEN CHOOSE rl \in RecordLists :
            responses[id].outcome.text = TextObject([opportunities |-> rl])
    ELSE <<>>

\* the item alone through the size-1 path, meeting what it met in the run
AloneThroughSizeOnePath(item) ==
    AnalyzeBatchOfOne(item, responses[item.id].outcome, hashseed,
                      responses[item.id].at).value

\* the position in the caller's list of the item an opportunity came from
SourcePosition(opp) == CHOOSE p \in 1..Len(input) : input[p].id = opp.sources[1]

\* the number of items the run processes
Processed == IF Len(input) > max_items_per_file
             THEN max_items_per_file ELSE Len(input)

(* C1: whatever prompt, backend, parse and factory failures the items meet,
   analyze_content_items never raises, reaches its return, and the list it
   returns holds, for every item and title, as many opportunities as the
   item's successful analysis gave raw records of that title, and nothing
   else. *)
C1_ReturnsWhatSucceeded ==
    /\ [](pc # "raised")
    /\ <>(pc = "done")
    /\ [](pc = "done" =>
           /\ \A p \in 1..Len(all_opportunities) :
                 /\ Len(all_opportunities[p].sources) = 1
                 /\ \E q \in 1..Len(input) :
                       input[q].id = all_opportunities[p].sources[1]
                 /\ all_opportunities[p].title \in Titles
           /\ \A q \in 1..Len(input) : \A t \in Titles :
                 LET recs == RawRecordsOf(input[q].id)
                 IN  Cardinality({p \in 1..Len(all_opportunities) :
                                     /\ all_opportunities[p].sources = <<input[q].id>>
                                     /\ all_opportunities[p].title = t})
                        = Cardinality({r \in 1..Len(recs) : recs[r]["title"] = t}))

\* a finished run over two batches in which one item failed at the backend,
\* one in the factory and one gave two opportunities
C1_Witness ==
    /\ pc = "done"
    /\ Len(content_items) = 3
    /\ batch_size = 2
    /\ responses[1].outcome.fails = "backend"
    /\ responses[2].outcome.text = TextObject([opportunities |-> <<RawFull, RawTitleOnly>>])
    /\ responses[3].outcome.text = TextObject([opportunities |-> <<RawFull, RawUntitled>>])
    /\ Len(all_opportunities) = 2

(* C2: when the consolidated call of a batch of several items has failed,
   the fallback never raises and what it has gathered after its first k-1
   items is the concatenation, in item order, of what each of those items
   gives alone through the size-1 path; so _analyze_batch returns the
   concatenation over the whole batch, a failing item adding nothing. *)
C2_FallbackEquivalence ==
    /\ (pc = "raised" => Len(batch) = 1)
    /\ (pc = "fallback" =>
          /\ Len(batch) > 1
          /\ k \in 1..(Len(batch) + 1)
          /\ opportunities =
                Concat([x \in 1..(k - 1) |-> AloneThroughSizeOnePath(batch[x])]))

\* the fallback is about to return for a batch whose first item failed
\* and whose later item gave opportunities
C2_Witness ==
    /\ pc = "fallback"
    /\ k = Len(batch) + 1
    /\ Len(batch) = 3
    /\ responses[batch[1].id].outcome.fails = "prompt"
    /\ responses[batch[2].id].outcome.fails = "backend"
    /\ Len(AloneThroughSizeOnePath(batch[3])) = 2
    /\ Len(opportunities) = 2

(* C3: only the first max_items_per_file items of the caller's list are ever
   analyzed or sent to the backend, they are analyzed in their original
   order, and when the run returns every one of them has been analyzed:
   all items when the list is no longer than the cap. *)
C3_CapKeepsFirstItems ==
    /\ \A c \in 1..Len(calls) :
          \E p \in 1..Len(input) : p <= max_items_per_file /\ input[p].id = calls[c]
    /\ \A p \in 1..Len(input) :
          Analyzed(input[p].id) =>
             /\ p <= max_items_per_file
             /\ \A q \in 1..(p - 1) :
                   /\ Analyzed(input[q].id)
                   /\ responses[input[q].id].at < responses[input[p].id].at
    /\ (pc = "done" =>
          \A p \in 1..Len(input) :
             Analyzed(input[p].id) <=> p <= Processed)
    /\ (pc = "done" /\ Len(input) <= max_items_per_file =>
          \A p \in 1..Len(input) : Analyzed(input[p].id))

\* a finished run whose input was longer than the cap
C3_Witness ==
    /\ pc = "done"
    /\ Len(input) = 3
    /\ max_items_per_file = 2
    /\ truncation_reported
    /\ Analyzed(1) /\ Analyzed(2) /\ ~Analyzed(3)
    /\ Len(calls) = 2

(* C4: in the accumulated list an opportunity of an earlier content item
   never comes after an opportunity of a later one, and in the returned list
   the opportunities of one item stand in the order of the raw records of
   that item's response. *)
C4_BatchItemRecordOrder ==
    /\ \A p, q \in 1..Len(all_opportunities) :
          p < q => SourcePosition(all_opportunities[p])
                      <= SourcePosition(all_opportunities[q])
    /\ (pc = "done" =>
          \A x \in 1..Len(input) :
             LET FromItem(opp) == opp.sources = <<input[x].id>>
                 mine == SelectSeq(all_opportunities, FromItem)
                 recs == RawRecordsOf(input[x].id)
             IN  /\ Len(mine) = Len(recs)
                 /\ \A r \in 1..Len(recs) : mine[r].title = recs[r]["title"])

\* a finished run whose first batch took the fallback and whose second was
\* a single item, both giving opportunities, one item giving two
C4_Witness ==
    /\ pc = "done"
    /\ batch_size = 2
    /\ Len(content_items) = 3
    /\ Len(RawRecordsOf(1)) = 2
    /\ Len(RawRecordsOf(2)) = 1
    /\ Len(RawRecordsOf(3)) = 2
    /\ Len(all_opportunities) = 5

-----------------------------------------------------------------------------
(* What the claims about the deduplicator speak of *)

\* grouping has returned
Grouped == dpc \in {"merging", "done"}

\* the chain of the order-sensitivity scenario: three opportunities A, B, C
\* in this order, A like B, B like C, A unlike C
Chain ==
    /\ Len(dedup_input) = 3
    /\ similarity_matrix[1][2] >= similarity_threshold
    /\ similarity_matrix[2][3] >= similarity_threshold
    /\ similarity_matrix[1][3] < similarity_threshold

(* C5, as claimed: for A, B, C with similarity(A,B) and similarity(B,C) at
   or above the threshold and similarity(A,C) below it, grouping [A,B,C]
   places all three in one cluster seeded by A. *)
C5_Claimed_OneCluster ==
    Grouped /\ Chain => groups = << <<1, 2, 3>> >>

(* C5, amended: for such A, B, C, grouping [A,B,C] gives two clusters, [A,B]
   seeded by A and [C] alone: C is compared with the seed A only. *)
C5_SeedTakesOnlyItsLike ==
    Grouped /\ Chain => groups = << <<1, 2>>, <<3>> >>

\* grouping has returned on such a chain, the similarity of A and B being
\* exactly the threshold
C5_Witness ==
    /\ Grouped
    /\ Chain
    /\ similarity_matrix[1][2] = similarity_threshold
    /\ Len(groups) = 2

(* C6: at every moment of the grouping, every cluster is non-empty, its
   first member is the lowest position that no earlier cluster holds, every
   other member has a similarity to that first member at or above the
   threshold, and no position whose similarity to the first member is below
   the threshold is in the cluster. *)
C6_MembersAreLikeTheSeed ==
    dpc \in {"grouping", "merging", "done"} =>
      \A c \in 1..Len(groups) :
         LET g == groups[c]
             earlier == UNION {Range(groups[d]) : d \in 1..(c - 1)}
         IN  /\ g # <<>>
             /\ g[1] = Minimum((1..Len(dedup_input)) \ earlier)
             /\ \A m \in 2..Len(g) :
                   similarity_matrix[g[1]][g[m]] >= similarity_threshold
             /\ \A j \in 1..Len(dedup_input) :
                   similarity_matrix[g[1]][j] < similarity_threshold
                      => j \notin Range(g)

\* a returned cluster of several members, and an opportunity outside it that
\* is unlike its seed but like one of its other members
C6_Witness ==
    /\ dpc = "done"
    /\ \E c \in 1..Len(groups) :
         /\ Len(groups[c]) >= 2
         /\ \E j \in 1..Len(dedup_input) :
              /\ j \notin Range(groups[c])
              /\ similarity_matrix[groups[c][1]][j] < similarity_threshold
              /\ \E m \in 2..Len(groups[c]) :
                   similarity_matrix[groups[c][m]][j] >= similarity_threshold

RECURSIVE FrequenciesUpTo(_, _)
\* the sum of the frequencies of the first n members
FrequenciesUpTo(opps, n) ==
    IF n = 0 THEN 0 ELSE opps[n].frequency + FrequenciesUpTo(opps, n - 1)

(* C7: the frequency of the record _merge_opportunity_group returns is the
   sum of the frequencies of all members of the cluster, those that share
   the base record's id included. *)
C7_FrequencyIsTheSum ==
    mpc = "merged" => merged.frequency = FrequenciesUpTo(cluster, Len(cluster))

\* a merged cluster with a later member that has the base's id and a
\* frequency of its own
C7_Witness ==
    /\ mpc = "merged"
    /\ cluster = <<Made1, Made2, Kept1>>
    /\ merged.frequency = 4

(* C8: for a cluster of two or more members, the sources of the merged
   record are, as a set, the union of the members' sources, and no source
   identifier stands in them twice. *)
C8_SourcesAreTheUnionOnce ==
    mpc = "merged" /\ Len(cluster) >= 2 =>
       /\ Range(merged.sources)
             = UNION {Range(cluster[x].sources) : x \in 1..Len(cluster)}
       /\ \A x, y \in 1..Len(merged.sources) :
             x # y => merged.sources[x] # merged.sources[y]

\* a merged cluster whose members share a source
C8_Witness ==
    /\ mpc = "merged"
    /\ cluster = <<Kept1, Made1>>
    /\ Len(merged.sources) = 2

\* the order low < medium < high < critical
SeverityScale == <<"low", "medium", "high", "critical">>

Rank(severity) == CHOOSE r \in 1..Len(SeverityScale) : SeverityScale[r] = severity

MemberOrders(n) ==
    {p \in [1..n -> 1..n] : \A x, y \in 1..n : x # y => p[x] # p[y]}

(* C9: for a cluster of two or more members whose severities are all among
   low, medium, high, critical, the merged record's severity is a member's
   severity that no member's severity exceeds; and for every cluster of two
   or more members, taking the members in any other order gives the same
   severity. *)
C9_SeverityIsTheMaximum ==
    mpc = "merged" /\ Len(cluster) >= 2 =>
       /\ (\A x \in 1..Len(cluster) : cluster[x].severity \in ValidSeverities)
             => /\ \E x \in 1..Len(cluster) : merged.severity = cluster[x].severity
                /\ \A x \in 1..Len(cluster) :
                      Rank(cluster[x].severity) <= Rank(merged.severity)
       /\ \A p \in MemberOrders(Len(cluster)) :
             GetHighestSeverity([x \in 1..Len(cluster) |-> cluster[p[x]].severity])
                = merged.severity

\* a merged cluster whose highest severity is not the base's
C9_Witness ==
    /\ mpc = "merged"
    /\ cluster = <<Made3, Kept1, Made1>>
    /\ merged.severity = "critical"

(* C10: merging a cluster of exactly one member returns that member, every
   field as it was. *)
C10_SingleMemberUnchanged ==
    mpc = "merged" /\ Len(cluster) = 1 => merged = cluster[1]

\* a single member that carries a status, comments, merged ids and an
\* update time of its own, merged
C10_Witness ==
    /\ mpc = "merged"
    /\ cluster = <<Kept1>>
    /\ merged.updated_at = 4
    /\ merged.status = "en_proceso"

\* the ids of the members whose id is not the base's, in the members' order
RECURSIVE OtherIdsUpTo(_, _)
OtherIdsUpTo(opps, n) ==
    IF n = 0 THEN <<>>
    ELSE IF opps[n].id # opps[1].id
         THEN Append(OtherIdsUpTo(opps, n - 1), opps[n].id)
         ELSE OtherIdsUpTo(opps, n - 1)

(* C11: for a cluster of two or more members, merged_from of the merged
   record holds the id of every member whose id is not the base member's,
   one entry per such member in the members' order, and never the merged
   record's own id, also when a later member has the base's id. *)
C11_MergedFromIsTheOthers ==
    mpc = "merged" /\ Len(cluster) >= 2 =>
       /\ merged.merged_from = OtherIdsUpTo(cluster, Len(cluster))
       /\ \A x \in 1..Len(cluster) :
             cluster[x].id # cluster[1].id
                => \E y \in 1..Len(merged.merged_from) :
                      merged.merged_from[y] = cluster[x].id
       /\ \A y \in 1..Len(merged.merged_from) :
             merged.merged_from[y] # merged.id

\* a merged cluster whose third member has the base's id, and whose second
\* has not
C11_Witness ==
    /\ mpc = "merged"
    /\ cluster = <<Made1, Made2, Kept1>>
    /\ cluster[3].id = cluster[1].id
    /\ merged.merged_from = <<Made2.id>>

(* C12: for a cluster of two or more members, created_at of the merged
   record is a member's created_at that no member's created_at precedes,
   processing_date likewise among the members' processing dates, and
   merging the members in any other order, whichever member then is the
   base, gives the same two dates. *)
C12_DatesAreTheEarliest ==
    mpc = "merged" /\ Len(cluster) >= 2 =>
       /\ \E x \in 1..Len(cluster) : merged.created_at = cluster[x].created_at
       /\ \A x \in 1..Len(cluster) : merged.created_at <= cluster[x].created_at
       /\ \E x \in 1..Len(cluster) :
             merged.processing_date = cluster[x].processing_date
       /\ \A x \in 1..Len(cluster) :
             merged.processing_date <= cluster[x].processing_date
       /\ \A p \in MemberOrders(Len(cluster)) :
             LET reordered == [x \in 1..Len(cluster) |-> cluster[p[x]]]
                 again == MergeOpportunityGroup(reordered, now, merged.sources,
                                                merged.keywords)
             IN  /\ again.created_at = merged.created_at
                 /\ again.processing_date = merged.processing_date

\* a merged cluster whose earliest created_at and earliest processing_date
\* are those of two different members, neither of them the base
C12_Witness ==
    /\ mpc = "merged"
    /\ cluster = <<Made2, Kept1, Made3>>
    /\ cluster[1].created_at = 3 /\ cluster[1].processing_date = 3
    /\ merged.created_at = 1
    /\ merged.processing_date = 1

-----------------------------------------------------------------------------
(* C13: every Opportunity _create_opportunity_from_analysis returns has
   frequency 1, the one-element list of the content item's id as sources,
   status 'nueva', empty comments and an empty merged_from. *)
C13_FreshOpportunity ==
    fpc = "returned" =>
       /\ opportunity.frequency = 1
       /\ opportunity.sources = <<arg_content_item.id>>
       /\ opportunity.status = "nueva"
       /\ opportunity.comments = ""
       /\ opportunity.merged_from = <<>>

\* the factory has returned a record made of a full raw record of item 2
C13_Witness ==
    /\ fpc = "returned"
    /\ arg_opp_data = RawFull
    /\ arg_content_item = ContentItem(2)
    /\ opportunity.sources = <<2>>
    /\ opportunity.severity = "high"

(* C14, as claimed: for a raw record that lacks any of title, description,
   category, severity and keywords, the factory returns an Opportunity, and
   each missing field has its default: the untitled placeholder, the
   no-description placeholder, improvement_opportunity, medium, the empty
   list. *)
C14_Claimed_DefaultsForMissing ==
    /\ fpc # "raised"
    /\ fpc = "returned" =>
          /\ opportunity.title
                = Get(arg_opp_data, "title", "Oportunidad sin titulo")
          /\ opportunity.description
                = Get(arg_opp_data, "description", SinDescripcion)
          /\ opportunity.category
                = Get(arg_opp_data, "category", "improvement_opportunity")
          /\ opportunity.severity = Get(arg_opp_data, "severity", "medium")
          /\ opportunity.keywords = Get(arg_opp_data, "keywords", <<>>)

(* C15, as claimed: two calls of the factory with the same content item and
   the same title give the same id, and two calls with the same content item
   and different titles give different ids. *)
C15_Claimed_IdDerivation ==
    fpc = "returned" /\ before # <<>> /\ ~before[1].raised
       /\ before[1].content_item = arg_content_item =>
          /\ before[1].opp_data["title"] = arg_opp_data["title"]
                => opportunity.id = before[1].opportunity.id
          /\ before[1].opp_data["title"] # arg_opp_data["title"]
                => opportunity.id # before[1].opportunity.id

(* C16, as claimed: for every response text _parse_ai_response returns and
   never raises, and when the text has no region from a '{' to a later '}',
   or json.loads does not decode that region, what it returns is a record
   with an empty opportunities list. *)
C16_Claimed_ParserNeverRaises ==
    ppc # "call" =>
       /\ ppc = "returned"
       /\ (\/ ~JsonMatch(arg_response_text).found
           \/ JsonLoads(arg_response_text,
                        JsonMatch(arg_response_text)).error # "none")
             => parsed.value = [opportunities |-> <<>>]

-----------------------------------------------------------------------------
\* an API key is passed or is in the environment
KeyPresent ==
    \/ arg_api_key \notin {None, Str(<<>>)}
    \/ KeyVariable \in DOMAIN environ /\ environ[KeyVariable] # <<>>

(* C17, as claimed: with no API key passed or in the environment the
   construction never completes, no client is created and no backend call
   is made; with a key present the construction does not raise. *)
C17_Claimed_OnlyTheKeyIsFatal ==
    /\ ~KeyPresent => cpc # "constructed" /\ client = NoClient /\ calls = <<>>
    /\ KeyPresent => cpc # "raised"

-----------------------------------------------------------------------------
\* t is the number of batches: the least number of batches of batch_size
\* items that hold the processed items
IsBatchCount(t) ==
    /\ t * batch_size >= Processed
    /\ t > 0 => (t - 1) * batch_size < Processed

\* the number of callback calls made when the loop stands at offset i
CallsSoFar == IF pc = "raised" THEN (i \div batch_size) + 1 ELSE i \div batch_size

(* C18: when a progress callback is supplied it is called once for each
   batch, in the order of the batches, the k-th call with (k, total), where
   total is the least number of batches of batch_size items that hold the
   processed items; each call comes when the items of the batches up to
   the k-th, and no later item, have been analyzed and their opportunities
   are in the list, and the call leaves the list alone; at the return there
   have been total calls; with an empty input there is none, and with no
   callback nothing is called. *)
C18_OneCallPerBatch ==
    /\ [](/\ progress_callback = "none" => progress = <<>>
          /\ input = <<>> => progress = <<>>
          /\ progress_callback # "none" =>
                /\ Len(progress) = CallsSoFar
                /\ \A x \in 1..Len(progress) :
                      /\ progress[x][1] = x
                      /\ IsBatchCount(progress[x][2])
                /\ pc = "done" => IsBatchCount(Len(progress)))
    /\ [][progress' # progress =>
            /\ progress' = Append(progress, <<Len(progress) + 1, total_batches>>)
            /\ all_opportunities' = all_opportunities
            /\ \A p \in 1..Len(content_items) :
                  Analyzed(content_items[p].id) <=> p <= i + batch_size
            /\ all_opportunities
                  = Concat([p \in 1..Len(content_items) |->
                              IF p <= i + batch_size
                              THEN AloneThroughSizeOnePath(content_items[p])
                              ELSE <<>>])]_vars

\* a finished run of two batches whose callback was called twice
C18_Witness ==
    /\ pc = "done"
    /\ progress_callback = "reports"
    /\ Len(content_items) = 3
    /\ batch_size = 2
    /\ progress = << <<1, 2>>, <<2, 2>> >>
    /\ Len(all_opportunities) = 2

(* C19, as claimed: whatever callback is supplied, one that raises
   included, analyze_content_items returns, and the list it returns is the
   one the items and the backend's answers give by themselves: the
   concatenation, in item order, of what each processed item gives alone. *)
C19_Claimed_CallbackHasNoEffect ==
    /\ pc # "raised"
    /\ pc = "done" =>
          all_opportunities
             = Concat([p \in 1..Len(content_items) |->
                         AloneThroughSizeOnePath(content_items[p])])

-----------------------------------------------------------------------------
(* C20, as claimed: after any calls of store_opportunities,
   update_opportunity_status and update_opportunity_comments, a stored
   record whose status has been set by an update has the status the last
   such update set, and one whose comments have been set by an update has
   the comments the last such update set, also when the record has been
   stored again since. *)
C20_Claimed_OnlyUpdatesChange ==
    \A id \in DOMAIN table :
       /\ last_update[id].status # "never"
             => table[id].status = last_update[id].status
       /\ last_update[id].comments # "never"
             => table[id].comments = last_update[id].comments

-----------------------------------------------------------------------------
(* The life of opportunities *)

\* every Opportunity held and every row stored has one of the five statuses
StatusesAreValid ==
    /\ \A opp \in memory : opp.status \in ValidStatuses
    /\ \A id \in DOMAIN table : table[id].status \in ValidStatuses

\* C21: after any sequence of factory calls, merges, stores, status updates
\* and comment updates, the status of every opportunity, held in memory or
\* stored, is one of nueva, en_proceso, solucionada, descartada, bloqueada;
\* update_opportunity_status called with any other value raises and leaves
\* every stored record as it was.
C21_StatusIsOneOfFive ==
    /\ []StatusesAreValid
    /\ [][(/\ request'.op = "update_opportunity_status"
           /\ request'.status \notin ValidStatuses)
          => (/\ answer' = [raised |-> "ValueError"]
              /\ table' = table)]_vars

\* an update with a status outside the five was refused, for a stored
\* record that an earlier update had moved to bloqueada
C21_Witness ==
    /\ request.op = "update_opportunity_status"
    /\ request.status \notin ValidStatuses
    /\ request.opportunity_id \in DOMAIN table
    /\ table[request.opportunity_id].status = "bloqueada"
    /\ answer = [raised |-> "ValueError"]

\* the columns of the opportunities table (lines 49-64)
Columns ==
    {"id", "title", "description", "category", "severity", "frequency",
     "sources", "keywords", "created_at", "updated_at", "processing_date",
     "status", "comments", "merged_from"}

\* the step is a call of update_opportunity_status that does not raise, or
\* a call of update_opportunity_comments
UpdateCalled ==
    \/ /\ request'.op = "update_opportunity_status"
       /\ request'.status \in ValidStatuses
    \/ request'.op = "update_opportunity_comments"

\* the column the call sets, and the value it sets it to
ColumnSet == IF request'.op = "update_opportunity_status" THEN "status"
             ELSE "comments"

ValueSet == IF request'.op = "update_opportunity_status" THEN request'.status
            ELSE request'.comments

\* C23: an update of the status (of the comments) of a stored id returns
\* true and changes only that record's status (comments) and its updated_at,
\* which becomes the current time; every other column of it and every other
\* record stay as they were.  For an id that is not stored the call returns
\* false and changes no record.
C23_UpdateTouchesOnlyItsColumn ==
    [][UpdateCalled =>
        IF request'.opportunity_id \in DOMAIN table
        THEN /\ answer' = [success |-> TRUE]
             /\ DOMAIN table' = DOMAIN table
             /\ table'[request'.opportunity_id][ColumnSet] = ValueSet
             /\ table'[request'.opportunity_id].updated_at = now
             /\ \A column \in Columns \ {ColumnSet, "updated_at"} :
                   table'[request'.opportunity_id][column]
                      = table[request'.opportunity_id][column]
             /\ \A id \in DOMAIN table \ {request'.opportunity_id} :
                   table'[id] = table[id]
        ELSE /\ answer' = [success |-> FALSE]
             /\ table' = table]_vars

\* the comments of one of two stored records were updated after its status
\* had been: the row holds both, and the time of the later update
C23_Witness ==
    /\ request.op = "update_opportunity_comments"
    /\ answer = [success |-> TRUE]
    /\ Cardinality(DOMAIN table) = 2
    /\ table[request.opportunity_id].comments = "seen"
    /\ table[request.opportunity_id].status = "en_proceso"
    /\ table[request.opportunity_id].updated_at = now - 1
    /\ table[request.opportunity_id].created_at < now - 2

-----------------------------------------------------------------------------
(* The batches *)

\* ceil(n / b) for b of 1 or more: the least count of b-sized batches that
\* hold n items
Ceil(n, b) == CHOOSE c \in 0..n : c * b >= n /\ (c = 0 \/ (c - 1) * b < n)

\* the places an item has in the batches: the batch and the position in it
PlacesOf(item) ==
    {pl \in (1..Len(batches)) \X (1..MaxItems) :
        pl[2] <= Len(batches[pl[1]]) /\ batches[pl[1]][pl[2]] = item}

\* C22: with a batch size of 1 or more, the batches of a finished run
\* partition the (possibly truncated) input: every processed item is in
\* exactly one batch, the batches are consecutive slices in input order,
\* every batch but the last has exactly batch_size items, the last has
\* between 1 and batch_size, and there are ceil(n / batch_size) batches.
C22_BatchesPartition ==
    (pc = "done" /\ batch_size >= 1) =>
       /\ \A x \in 1..Len(content_items) :
             Cardinality(PlacesOf(content_items[x])) = 1
       /\ Concat(batches) = content_items
       /\ \A j \in 1..Len(batches) :
             /\ j < Len(batches) => Len(batches[j]) = batch_size
             /\ Len(batches[j]) \in 1..batch_size
       /\ Len(batches) = Ceil(Len(content_items), batch_size)
       /\ total_batches = Len(batches)

\* three items went in a full batch of two and a last batch of one
C22_Witness ==
    /\ pc = "done"
    /\ Len(content_items) = 3
    /\ batch_size = 2
    /\ Len(batches) = 2
    /\ Len(batches[1]) = 2
    /\ Len(batches[2]) = 1

-----------------------------------------------------------------------------
(* The threshold *)

\* the positions in groups before the one of the given number
InEarlierGroups(g) == UNION {Range(groups[h]) : h \in 1..(g - 1)}

\* the groups found are those of the given threshold: a group holds, beside
\* its seed, exactly the later opportunities no earlier group took whose
\* similarity to the seed reaches the threshold
GroupedBy(threshold) ==
    \A g \in 1..Len(groups) :
       \A j \in (groups[g][1] + 1)..Len(dedup_input) :
          j \notin InEarlierGroups(g) =>
             (j \in Range(groups[g])
                <=> similarity_matrix[groups[g][1]][j] >= threshold)

\* C24, as claimed: a deduplicator constructed with an explicit threshold t,
\* 0 included, uses t: clustering attaches to a seed exactly the
\* opportunities whose similarity to it is at least t; the default 0.8 is
\* used only when no threshold is supplied.
C24_Claimed_ThresholdAsSupplied ==
    arg_similarity_threshold # None =>
       /\ similarity_threshold = arg_similarity_threshold.num
       /\ dpc \in {"merging", "done"} => GroupedBy(arg_similarity_threshold.num)

\* the places a position of the input has in the groups
GroupPlacesOf(position) ==
    {pl \in (1..Len(groups)) \X (1..Len(dedup_input)) :
        pl[2] <= Len(groups[pl[1]]) /\ groups[pl[1]][pl[2]] = position}

\* C25: whatever the similarity matrix and the threshold, the clusters
\* _find_similarity_groups returns partition the input list: every position
\* is in exactly one cluster, no cluster is empty, the members of a cluster
\* keep their order in the input, the clusters come in the order of their
\* seeds, and any two seeds have a similarity below the threshold.
C25_ClustersPartition ==
    dpc \in {"merging", "done"} =>
       /\ \A position \in 1..Len(dedup_input) :
             Cardinality(GroupPlacesOf(position)) = 1
       /\ \A g \in 1..Len(groups) :
             /\ groups[g] # <<>>
             /\ \A x, y \in 1..Len(groups[g]) :
                   x < y => groups[g][x] < groups[g][y]
       /\ \A g, h \in 1..Len(groups) :
             g < h =>
                /\ groups[g][1] < groups[h][1]
                /\ similarity_matrix[groups[g][1]][groups[h][1]]
                      < similarity_threshold
                /\ similarity_matrix[groups[h][1]][groups[g][1]]
                      < similarity_threshold

\* with a threshold of 0.95 handed over, the first and the third of three
\* opportunities went together and the second stayed alone
C25_Witness ==
    /\ dpc = "done"
    /\ arg_similarity_threshold = Num(95)
    /\ Len(dedup_input) = 3
    /\ groups = <<<<1, 3>>, <<2>>>>
    /\ similarity_matrix[1][2] = 80

-----------------------------------------------------------------------------
(* What deduplicate_opportunities keeps *)

\* the content items named by the sources of the records of a list
SourcesOf(opps) == UNION {Range(opps[x].sources) : x \in 1..Len(opps)}

\* C26: deduplicate_opportunities conserves mentions: the frequencies of the
\* returned records sum to what the frequencies of the input records sum to,
\* the returned records name the same sources as the input records, there
\* are at most as many of them, and there are none exactly when the input
\* is empty.
C26_MentionsAreConserved ==
    dpc = "done" =>
       /\ FrequenciesUpTo(merged_opportunities, Len(merged_opportunities))
             = FrequenciesUpTo(dedup_input, Len(dedup_input))
       /\ SourcesOf(merged_opportunities) = SourcesOf(dedup_input)
       /\ Len(merged_opportunities) <= Len(dedup_input)
       /\ (merged_opportunities = <<>>) <=> (dedup_input = <<>>)

\* three records that counted four mentions of three items came back as
\* two, one of them counting three mentions
C26_Witness ==
    /\ dpc = "done"
    /\ Len(dedup_input) = 3
    /\ FrequenciesUpTo(dedup_input, 3) = 4
    /\ Cardinality(SourcesOf(dedup_input)) = 3
    /\ Len(merged_opportunities) = 2
    /\ \E x \in 1..2 : merged_opportunities[x].frequency = 3

-----------------------------------------------------------------------------
(* What _analyze_single_item returns *)

\* the raw records of the response the item's analysis met, when the
\* response holds a JSON object that lists raw records
ResponseRecords ==
    IF \E rl \in SingleRecordLists :
          met_outcome.text = TextObject([opportunities |-> rl])
    THEN CHOOSE rl \in SingleRecordLists :
            met_outcome.text = TextObject([opportunities |-> rl])
    ELSE <<>>

\* one Opportunity for every raw record of the response, in response order
OneForEveryRecord ==
    /\ met_outcome.fails = "nothing"
    /\ Len(item_opportunities) = Len(ResponseRecords)
    /\ \A r \in 1..Len(ResponseRecords) :
          /\ "title" \in DOMAIN ResponseRecords[r]
          /\ item_opportunities[r].title = ResponseRecords[r].title
          /\ item_opportunities[r].sources = <<arg_item.id>>

\* C27: for one content item, _analyze_single_item returns either one
\* Opportunity for every raw record of the parsed response, in response
\* order, or the empty list; when one raw record cannot be converted (it has
\* no title), the opportunities built of the records before it are dropped
\* as well.
C27_AllOrNothing ==
    ipc = "returned" =>
       /\ item_opportunities = <<>> \/ OneForEveryRecord
       /\ (\E r \in 1..Len(ResponseRecords) :
              "title" \notin DOMAIN ResponseRecords[r])
             => item_opportunities = <<>>

\* the response listed a full record and then one without a title: nothing
\* came back, the opportunity of the full record neither
C27_Witness ==
    /\ ipc = "returned"
    /\ ResponseRecords = <<RawFull, RawUntitled>>
    /\ item_opportunities = <<>>

\* the number of backend calls made with the item of the given id
TimesSent(id) == Cardinality({c \in 1..Len(calls) : calls[c] = id})

\* the backend calls are calls for one item each, one at most for every
\* processed item
OneCallAtMost ==
    /\ \A p \in 1..Len(input) : TimesSent(input[p].id) <= 1
    /\ \A c \in 1..Len(calls) :
          \E p \in 1..Processed : input[p].id = calls[c]
    /\ Len(calls) <= Processed

(* C28: in one run of analyze_content_items, whatever the batch size, every
   processed content item is sent to the backend in one call at most and
   there are never more backend calls than processed items; every backend
   call carries one item, and the step that takes the multi-item path of
   _analyze_batch makes no backend call and goes on to the per-item
   fallback. *)
C28_OneCallPerItem ==
    /\ []OneCallAtMost
    /\ [][/\ calls' # calls =>
               \E p \in 1..Processed : calls' = Append(calls, input[p].id)
          /\ (pc = "batch" /\ Len(batch) # 1) =>
               calls' = calls /\ pc' = "fallback"]_vars

\* a finished run with batches of two: the first batch went through the
\* fallback, where the second item's prompt could not be built, and the
\* third item went alone
C28_Witness ==
    /\ pc = "done"
    /\ batch_size = 2
    /\ Len(input) = 3
    /\ max_items_per_file = 3
    /\ calls = <<1, 3>>
    /\ responses[2].outcome.fails = "prompt"

(* C29, as claimed: for every cluster of two or more members, the merged
   record's severity is the severity of one member at least, also when
   members carry severities outside low, medium, high, critical.  A cluster
   whose members all carry such severities gets "low", the start value of
   line 411, which no member carries. *)
C29_Claimed_SeverityOfAMember ==
    mpc = "merged" /\ Len(cluster) >= 2 =>
       \E x \in 1..Len(cluster) : merged.severity = cluster[x].severity

\* the ids of the records of a list are pairwise distinct
DistinctIds(opps) ==
    \A x, y \in 1..Len(opps) : x # y => opps[x].id # opps[y].id

\* after store_opportunities the rows left are as many as the count
\* returned
RowsAsCounted ==
    request.op = "store_opportunities" =>
       Cardinality(DOMAIN table) = answer.stored_count

(* C30, as claimed: the records deduplicate_opportunities returns for the
   factory's opportunities of one run have pairwise distinct ids, and
   store_opportunities on the empty store then leaves as many rows as the
   count it returns.  Two raw records of one item under one title (or
   under two titles whose hashes collide) get one id, stay apart when their
   texts are not similar enough, and the second row replaces the first. *)
C30_Claimed_DistinctIdsStored ==
    /\ dpc = "done" => DistinctIds(merged_opportunities)
    /\ RowsAsCounted

====
